---- MODULE Spec2Model ----
(***************************************************************************)
(* A model of bgmtv: the Client and its builder, the three request         *)
(* executors (search subjects, list subjects, list episodes), the direct   *)
(* operations, and the JSON codec of the request body types.               *)
(***************************************************************************)
EXTENDS Integers, Sequences, FiniteSets

VARIABLES
    clientBuilder,    \* ClientBuilder: the four optional fields
    client,           \* Option<Client>: the Client once built
    searchBuilder,    \* Option<SearchSubjectsExecutorBuilder>
    subjectsBuilder,  \* Option<GetSubjectsExecutorBuilder>
    episodesBuilder,  \* Option<GetEpisodesExecutorBuilder>
    executor,         \* Option<executor>: the executor a build() returned
    call,             \* Option<call record>: the last finished operation call
    codecIn,          \* the value handed to the codec
    codecJson,        \* Option<Json>: what serde_json::to_value produced
    codecOut,         \* Option<decode result>: what serde_json::from_value produced
    wireType,         \* the name of the type a JSON value is decoded as or encoded from
    wireJson,         \* Option<Json>: the JSON to decode, or the JSON encoded
    wireValue,        \* Option<decode result>: the value decoded, or the value to encode
    wireOp,           \* "none", "decoded" or "encoded": what was done last
    inflight,         \* slot -> Option<operation in flight>: the calls not yet answered
    filterBuilder,    \* Option<SearchSubjectsFilterBuilder>
    filter,           \* Option<build result>: what the filter builder's build() returned
    aborted           \* whether the program panicked

vars == <<clientBuilder, client, searchBuilder, subjectsBuilder, episodesBuilder,
          executor, call, codecIn, codecJson, codecOut, wireType, wireJson, wireValue,
          wireOp, inflight, filterBuilder, filter, aborted>>

clientVars == <<clientBuilder, client>>
builderVars == <<searchBuilder, subjectsBuilder, episodesBuilder>>
codecVars == <<codecIn, codecJson, codecOut>>
filterVars == <<filterBuilder, filter>>
wireVars == <<wireType, wireJson, wireValue, wireOp>>
restVars == <<wireVars, inflight, aborted>>

(***************************************************************************)
(* Bounds of the model.                                                    *)
(***************************************************************************)
\* u64 parameters (limit, offset) range over 0..MaxU64
MaxU64 == 1
\* the lists of a SearchSubjectsFilter handed to the codec have at most MaxLen items
MaxLen == 2
\* at most MaxInflight operations of one Client are in flight at a time
MaxInflight == 2
\* the Subject documents handed to the decoder differ from the good one in at
\* most MaxPerturbed fields (and in the listed other ways)
MaxPerturbed == 2

(***************************************************************************)
(* Option<T>: None is the empty tuple, Some(v) the one-element tuple.      *)
(***************************************************************************)
None == <<>>
Some(v) == <<v>>
IsSome(o) == Len(o) = 1
IsNone(o) == Len(o) = 0
Unwrap(o) == o[1]
UnwrapOr(o, d) == IF IsSome(o) THEN o[1] ELSE d

SeqsUpTo(S, n) == UNION {[1..k -> S] : k \in 0..n}

U64 == 0..MaxU64

(***************************************************************************)
(* JSON values (serde_json::Value), one record shape for every kind.       *)
(* An object keeps its members as an ordered sequence of <<key, value>>.   *)
(***************************************************************************)
JNull == [t |-> "null", b |-> FALSE, n |-> 0, s |-> "", items |-> <<>>, members |-> <<>>]
JBool(b) == [t |-> "bool", b |-> b, n |-> 0, s |-> "", items |-> <<>>, members |-> <<>>]
JNum(n) == [t |-> "number", b |-> FALSE, n |-> n, s |-> "", items |-> <<>>, members |-> <<>>]
JStr(s) == [t |-> "string", b |-> FALSE, n |-> 0, s |-> s, items |-> <<>>, members |-> <<>>]
JArr(items) == [t |-> "array", b |-> FALSE, n |-> 0, s |-> "", items |-> items, members |-> <<>>]
JObj(members) == [t |-> "object", b |-> FALSE, n |-> 0, s |-> "", items |-> <<>>, members |-> members]

\* a JSON number written with a fraction or an exponent (serde_json's N::Float),
\* kept in tenths
JFloat(tenths) ==
    [t |-> "float", b |-> FALSE, n |-> tenths, s |-> "", items |-> <<>>, members |-> <<>>]

JKeys(j) == [i \in 1..Len(j.members) |-> j.members[i][1]]
JHasKey(j, k) == \E i \in 1..Len(j.members) : j.members[i][1] = k
JCount(j, k) == Cardinality({i \in 1..Len(j.members) : j.members[i][1] = k})
JGet(j, k) == j.members[CHOOSE i \in 1..Len(j.members) : j.members[i][1] = k][2]

(***************************************************************************)
(* Enumerations and their wire codes.                                      *)
(***************************************************************************)
SubjectType == {"Book", "Anime", "Music", "Game", "Real"}

\* #[repr(u8)] discriminants of SubjectType
SubjectTypeRepr(t) ==
    CASE t = "Book" -> 1
      [] t = "Anime" -> 2
      [] t = "Music" -> 3
      [] t = "Game" -> 4
      [] t = "Real" -> 6

\* Serialize_repr: the discriminant as a JSON number
SerializeSubjectType(t) == JNum(SubjectTypeRepr(t))

\* Deserialize_repr: a number equal to one of the discriminants, else an error
DeserializeSubjectType(j) ==
    IF j.t = "number" /\ \E t \in SubjectType : SubjectTypeRepr(t) = j.n
    THEN Some(CHOOSE t \in SubjectType : SubjectTypeRepr(t) = j.n)
    ELSE None

SortType == {"Match", "Heat", "Rank", "Score"}

\* #[serde(rename_all = "lowercase")]
SortTypeName(s) ==
    CASE s = "Match" -> "match"
      [] s = "Heat" -> "heat"
      [] s = "Rank" -> "rank"
      [] s = "Score" -> "score"

\* a faulty variant: the variant's name as declared, not lowercased
SerializeSortTypeAsDeclared(s) == JStr(s)

SerializeSortType(s) == JStr(SortTypeName(s))

SerializeString(s) == JStr(s)
DeserializeString(j) == IF j.t = "string" THEN Some(j.s) ELSE None

SerializeBool(b) == JBool(b)
DeserializeBool(j) == IF j.t = "bool" THEN Some(j.b) ELSE None

(***************************************************************************)
(* Vec<T>: a JSON array, element by element.                               *)
(***************************************************************************)
\* Vec<SubjectType>
SerializeSubjectTypes(v) == JArr([i \in 1..Len(v) |-> SerializeSubjectType(v[i])])

DeserializeSubjectTypes(j) ==
    IF j.t = "array" /\ \A i \in 1..Len(j.items) : IsSome(DeserializeSubjectType(j.items[i]))
    THEN Some([i \in 1..Len(j.items) |-> Unwrap(DeserializeSubjectType(j.items[i]))])
    ELSE None

\* Vec<String>
SerializeStrings(v) == JArr([i \in 1..Len(v) |-> SerializeString(v[i])])

DeserializeStrings(j) ==
    IF j.t = "array" /\ \A i \in 1..Len(j.items) : IsSome(DeserializeString(j.items[i]))
    THEN Some([i \in 1..Len(j.items) |-> Unwrap(DeserializeString(j.items[i]))])
    ELSE None

(***************************************************************************)
(* SearchSubjectsFilter                                                    *)
(***************************************************************************)
\* #[derive(Default)]
DefaultFilter ==
    [type |-> <<>>, tag |-> <<>>, air_date |-> <<>>, rating |-> <<>>,
     rank |-> <<>>, nsfw |-> FALSE]

FilterFields == <<"type", "tag", "air_date", "rating", "rank", "nsfw">>
FilterListFields == {"type", "tag", "air_date", "rating", "rank"}

\* #[derive(Builder)]: SearchSubjectsFilterBuilder::default(), no field set
DefaultFilterBuilder ==
    [type |-> None, tag |-> None, air_date |-> None, rating |-> None,
     rank |-> None, nsfw |-> None]

\* the list a builder field holds so far
ListSoFar(b, f) == IF IsSome(b[f]) THEN Unwrap(b[f]) ELSE <<>>

\* a faulty variant: the item replaces the list
EachReplaces(b, f, item) == [b EXCEPT ![f] = Some(<<item>>)]

\* #[builder(setter(each = ...))]:
\* self.f.get_or_insert_with(Default::default).extend(Some(item))
Each(b, f, item) == [b EXCEPT ![f] = Some(Append(ListSoFar(b, f), item))]

\* #[builder(default)] build(): a field that was set is cloned, any other is
\* taken from SearchSubjectsFilter::default(); no field can be uninitialized
SearchSubjectsFilterBuilder_build(b) ==
    [ok |-> TRUE, field |-> "",
     value |-> [f \in DOMAIN b |-> IF IsSome(b[f]) THEN Unwrap(b[f])
                                    ELSE DefaultFilter[f]]]

\* a faulty variant: every list is serialized, empty or not
SkipNothing(v) == FALSE

\* #[serde(skip_serializing_if = "Vec::is_empty")]
SkipSerializingIf(v) == Len(v) = 0

\* one list field of the serialized map (its key with the array j the list v
\* serializes to), or nothing when it is skipped
SerializeVecField(key, v, j) ==
    IF SkipSerializingIf(v) THEN <<>> ELSE << <<key, j>> >>

\* derived Serialize: the fields in declaration order
SerializeFilter(f) ==
    JObj(SerializeVecField("type", f.type, SerializeSubjectTypes(f.type))
         \o SerializeVecField("tag", f.tag, SerializeStrings(f.tag))
         \o SerializeVecField("air_date", f.air_date, SerializeStrings(f.air_date))
         \o SerializeVecField("rating", f.rating, SerializeStrings(f.rating))
         \o SerializeVecField("rank", f.rank, SerializeStrings(f.rank))
         \o << <<"nsfw", SerializeBool(f.nsfw)>> >>)

\* the value of one field of the filter, decoded by the field's type
DeserializeFilterField(key, j) ==
    CASE key = "type" -> DeserializeSubjectTypes(j)
      [] key = "nsfw" -> DeserializeBool(j)
      [] OTHER -> DeserializeStrings(j)

DecodeOk(v) == [ok |-> TRUE, value |-> Some(v), error |-> "", field |-> ""]
DecodeErr(e, f) == [ok |-> FALSE, value |-> None, error |-> e, field |-> f]

\* serde's missing_field: only Option<T> fields may be absent; Vec<T> and bool may not
MissingField(key) == None

\* derived Deserialize, visit_map: the members in order; a known key seen twice is
\* an error, an unknown key is ignored; then every field must have been seen
RECURSIVE FilterVisitMap(_, _, _)
FilterVisitMap(members, i, acc) ==
    IF i > Len(members)
    THEN LET absent(k) == IsNone(acc[k]) /\ IsNone(MissingField(k))
             get(k) == IF IsSome(acc[k]) THEN Unwrap(acc[k]) ELSE Unwrap(MissingField(k))
         IN  IF \E n \in 1..Len(FilterFields) : absent(FilterFields[n])
             THEN DecodeErr("missing field",
                            FilterFields[CHOOSE n \in 1..Len(FilterFields) :
                                /\ absent(FilterFields[n])
                                /\ \A m \in 1..(n - 1) : ~absent(FilterFields[m])])
             ELSE DecodeOk([k \in DOMAIN acc |-> get(k)])
    ELSE LET key == members[i][1]
             val == members[i][2]
         IN  IF key \notin DOMAIN acc
             THEN FilterVisitMap(members, i + 1, acc)
             ELSE IF IsSome(acc[key])
             THEN DecodeErr("duplicate field", key)
             ELSE IF IsNone(DeserializeFilterField(key, val))
             THEN DecodeErr("invalid type", key)
             ELSE FilterVisitMap(members, i + 1,
                                 [acc EXCEPT ![key] = DeserializeFilterField(key, val)])

\* derived Deserialize, visit_seq: the fields by position
FilterVisitSeq(items) ==
    IF Len(items) < Len(FilterFields)
    THEN DecodeErr("invalid length", "")
    ELSE IF \E n \in 1..Len(FilterFields) :
                IsNone(DeserializeFilterField(FilterFields[n], items[n]))
    THEN DecodeErr("invalid type", "")
    ELSE IF Len(items) > Len(FilterFields)
    THEN DecodeErr("trailing characters", "")
    ELSE DecodeOk([k \in DOMAIN DefaultFilter |->
                    Unwrap(DeserializeFilterField(k,
                        items[CHOOSE n \in 1..Len(FilterFields) : FilterFields[n] = k]))])

DeserializeFilter(j) ==
    CASE j.t = "object" ->
            FilterVisitMap(j.members, 1, [k \in DOMAIN DefaultFilter |-> None])
      [] j.t = "array" -> FilterVisitSeq(j.items)
      [] OTHER -> DecodeErr("invalid type", "")

(***************************************************************************)
(* Client and ClientBuilder                                                *)
(***************************************************************************)
DEFAULT_USER_AGENT == "duskmoon/bgmtv/<CARGO_PKG_VERSION> (<CARGO_PKG_REPOSITORY>)"

\* #[builder(default = "https://api.bgm.tv".to_string())]
DefaultBaseUrl == "https://api.bgm.tv"

\* what the caller hands to the ClientBuilder setters
BaseUrls == {"http://localhost:8080", "api.bgm.tv"}
UserAgents == {"xxx/yyy/1.0"}
Tokens == {"auth_token", "auth\ntoken"}
\* the tokens with a byte that is not allowed in a header value (a line feed)
ControlCharTokens == {"auth\ntoken"}
\* reqwest::Client::new(): no User-Agent, no default headers
ReqwestClients == {[user_agent |-> None, authorization |-> None]}

\* the base URLs that url::Url::parse accepts as absolute (they carry a scheme)
AbsoluteBaseUrls == {DefaultBaseUrl, "http://localhost:8080"}

\* ClientBuilder::default(): every field unset
DefaultClientBuilder ==
    [base_url |-> None, user_agent |-> None, token |-> None, client |-> None]

\* Option<Option<T>>::flatten
Flatten(oo) == IF IsSome(oo) THEN Unwrap(oo) ELSE None

\* the default header map of the default transport
AuthorizationHeader(token) ==
    IF IsSome(token) THEN Some("Bearer " \o Unwrap(token)) ELSE None

\* the user agent of the default transport
TransportUserAgent(user_agent) == UnwrapOr(user_agent, DEFAULT_USER_AGENT)

\* HeaderValue::from_str: whether every byte of s is a visible ASCII byte or a
\* tab; the strings of the model that are not carry a line feed in the token
HeaderValue_from_str(s) == \A t \in ControlCharTokens : s # "Bearer " \o t

\* ClientBuilder::default_client: HeaderValue::from_str(..).unwrap() panics when
\* the token makes no header value
default_client_panics(b) ==
    /\ IsSome(Flatten(b.token))
    /\ ~HeaderValue_from_str(Unwrap(AuthorizationHeader(Flatten(b.token))))

\* ClientBuilder::build evaluates self.default_client() only when no client was
\* supplied
ClientBuilder_build_panics(b) == IsNone(b.client) /\ default_client_panics(b)

\* ClientBuilder::default_client: the reqwest::Client built from token and user_agent
default_client(b) ==
    [user_agent |-> Some(TransportUserAgent(Flatten(b.user_agent))),
     authorization |-> AuthorizationHeader(Flatten(b.token))]

\* the base_url field of the built Client
BuildBaseUrl(b) == UnwrapOr(b.base_url, DefaultBaseUrl)

\* ClientBuilder::build (derive_builder): each field from the builder or its default
ClientBuilder_build(b) ==
    [base_url |-> BuildBaseUrl(b),
     user_agent |-> Flatten(b.user_agent),
     token |-> Flatten(b.token),
     client |-> IF IsSome(b.client) THEN Unwrap(b.client) ELSE default_client(b)]

\* Client::base_url
base_url(c) == c.base_url

\* a faulty variant: the configured user agent is not looked at
user_agent_unconfigured(c) == DEFAULT_USER_AGENT

\* Client::user_agent
user_agent(c) == UnwrapOr(c.user_agent, DEFAULT_USER_AGENT)

\* Client::token
token(c) == c.token

(***************************************************************************)
(* Requests, responses and results                                         *)
(***************************************************************************)
Statuses == {200, 304, 404}
\* a body is either JSON of the schema the operation expects, or anything else
Bodies == {"schema", "other"}

\* what the transport answers: a failure, or a response
Responses ==
    {[transport |-> "error", status |-> 0, body |-> ""]}
    \cup [transport : {"ok"}, status : Statuses, body : Bodies]

Ok(v) == [ok |-> TRUE, value |-> v, error |-> "", kind |-> "", status |-> 0, field |-> ""]
Err(error, kind, status, field) ==
    [ok |-> FALSE, value |-> "", error |-> error, kind |-> kind, status |-> status,
     field |-> field]

\* digits of u64::to_string
Digit == <<"0", "1", "2", "3", "4", "5", "6", "7", "8", "9">>

RECURSIVE to_string(_)
to_string(n) == IF n < 10 THEN Digit[n + 1] ELSE to_string(n \div 10) \o Digit[(n % 10) + 1]

\* url::Url::parse / reqwest::IntoUrl of format!("{}{}", base_url, path)
UrlParse(base, path) == IF base \in AbsoluteBaseUrls THEN Some(base \o path) ELSE None

\* a request as RequestBuilder::build returns it
Request(method, url, query, accept, body) ==
    [method |-> method, url |-> url, query |-> query, accept |-> accept, body |-> body]

\* reqwest::Client::execute: the client's User-Agent and default headers are
\* added to the request that goes out
Outgoing(rc, req) ==
    [method |-> req.method, url |-> req.url, query |-> req.query, body |-> req.body,
     headers |-> [accept |-> req.accept,
                  user_agent |-> rc.user_agent,
                  authorization |-> rc.authorization]]

\* Response::error_for_status: client and server error statuses are errors
IsStatusError(status) == status >= 400 /\ status <= 599

\* Response::json: the body decoded against the expected schema
ResponseJson(resp) ==
    IF resp.body = "schema" THEN Ok("decoded") ELSE Err("Reqwest", "Decode", 0, "")

\* Response::bytes: the body as it is
ResponseBytes(resp) == Ok(resp.body)

\* execute(req).await?.error_for_status()? then the body, read as `body`
Perform(resp, body) ==
    IF resp.transport = "error" THEN Err("Reqwest", "Request", 0, "")
    ELSE IF IsStatusError(resp.status) THEN Err("Reqwest", "Status", resp.status, "")
    ELSE body

\* execute(req).await? then the body, read as `body`; the status is not looked at
PerformUnchecked(resp, body) ==
    IF resp.transport = "error" THEN Err("Reqwest", "Request", 0, "")
    ELSE body

\* the record of one finished call: the request that went out (if any), the
\* number of requests handed to the transport, the response and the result
Call(op, out, response, result) ==
    [op |-> op, request |-> out, net |-> Len(out), response |-> response,
     result |-> result]

\* a call that ended before anything was handed to the transport
NotSent(op, result) == Call(op, None, None, result)

\* a faulty variant: the request is handed to the transport again after a failure
SentWithRetry(op, c, req, resp, result) ==
    [op |-> op, request |-> Some(Outgoing(c.client, req)),
     net |-> IF result.ok THEN 1 ELSE 2, response |-> Some(resp), result |-> result]

\* a call whose request went out through the client's transport
Sent(op, c, req, resp, result) == Call(op, Some(Outgoing(c.client, req)), Some(resp), result)

(***************************************************************************)
(* More enumerations of the request parameters                             *)
(***************************************************************************)
EpisodeType == {"MainStory", "SP", "OP", "ED", "PV", "MAD", "Other"}

\* #[repr(u8)] discriminants of EpisodeType
EpisodeTypeRepr(t) ==
    CASE t = "MainStory" -> 0
      [] t = "SP" -> 1
      [] t = "OP" -> 2
      [] t = "ED" -> 3
      [] t = "PV" -> 4
      [] t = "MAD" -> 5
      [] t = "Other" -> 6

ImageType == {"Small", "Common", "Medium", "Large", "Grid"}

\* #[serde(rename_all = "lowercase")]
ImageTypeName(t) ==
    CASE t = "Small" -> "small"
      [] t = "Common" -> "common"
      [] t = "Medium" -> "medium"
      [] t = "Large" -> "large"
      [] t = "Grid" -> "grid"

\* #[repr(u16)] discriminants of the four category enums
SubjectBookCategoryRepr(v) ==
    CASE v = "Other" -> 0
      [] v = "Comic" -> 1001
      [] v = "Novel" -> 1002
      [] v = "Illustration" -> 1003

SubjectAnimeCategoryRepr(v) ==
    CASE v = "TV" -> 1
      [] v = "OVA" -> 2
      [] v = "Movie" -> 3
      [] v = "Web" -> 4

SubjectGameCategoryRepr(v) ==
    CASE v = "Other" -> 0
      [] v = "Games" -> 4001
      [] v = "Software" -> 4002
      [] v = "DLC" -> 4003
      [] v = "Tabletop" -> 4005

SubjectRealCategoryRepr(v) ==
    CASE v = "Other" -> 0
      [] v = "JP" -> 1
      [] v = "EN" -> 2
      [] v = "CN" -> 3
      [] v = "TV" -> 6001
      [] v = "Movie" -> 6002
      [] v = "Live" -> 6003
      [] v = "Show" -> 6004

\* SubjectCategory: one of the four category enums, [enum, variant]
SubjectCategory ==
    [enum : {"Book"}, variant : {"Other", "Comic", "Novel", "Illustration"}]
    \cup [enum : {"Anime"}, variant : {"TV", "OVA", "Movie", "Web"}]
    \cup [enum : {"Game"}, variant : {"Other", "Games", "Software", "DLC", "Tabletop"}]
    \cup [enum : {"Real"},
          variant : {"Other", "JP", "EN", "CN", "TV", "Movie", "Live", "Show"}]

\* a faulty variant: externally tagged, the outer variant's name as the key
SerializeSubjectCategoryTagged(c) ==
    JObj(<< <<c.enum,
              JNum(CASE c.enum = "Book" -> SubjectBookCategoryRepr(c.variant)
                     [] c.enum = "Anime" -> SubjectAnimeCategoryRepr(c.variant)
                     [] c.enum = "Game" -> SubjectGameCategoryRepr(c.variant)
                     [] c.enum = "Real" -> SubjectRealCategoryRepr(c.variant))>> >>)

\* #[serde(untagged)] Serialize: the inner enum's discriminant, no wrapper
SerializeSubjectCategory(c) ==
    JNum(CASE c.enum = "Book" -> SubjectBookCategoryRepr(c.variant)
           [] c.enum = "Anime" -> SubjectAnimeCategoryRepr(c.variant)
           [] c.enum = "Game" -> SubjectGameCategoryRepr(c.variant)
           [] c.enum = "Real" -> SubjectRealCategoryRepr(c.variant))

\* serde_json::to_string of a number: its decimal digits
serde_json_to_string(j) == to_string(j.n)

\* bool::to_string
bool_to_string(b) == IF b THEN "true" ELSE "false"

(***************************************************************************)
(* The numeric enums: #[repr(u8)] / #[repr(u16)] with Serialize_repr and   *)
(* Deserialize_repr                                                        *)
(***************************************************************************)
BloodType == {"A", "B", "AB", "O"}

BloodTypeRepr(t) ==
    CASE t = "A" -> 1
      [] t = "B" -> 2
      [] t = "AB" -> 3
      [] t = "O" -> 4

CharacterType == {"Character", "Mechanic", "Ship", "Organization"}

CharacterTypeRepr(t) ==
    CASE t = "Character" -> 1
      [] t = "Mechanic" -> 2
      [] t = "Ship" -> 3
      [] t = "Organization" -> 4

PersonType == {"Individual", "Corporation", "Association"}

PersonTypeRepr(t) ==
    CASE t = "Individual" -> 1
      [] t = "Corporation" -> 2
      [] t = "Association" -> 3

SubjectBookCategory == {"Other", "Comic", "Novel", "Illustration"}
SubjectAnimeCategory == {"TV", "OVA", "Movie", "Web"}
SubjectGameCategory == {"Other", "Games", "Software", "DLC", "Tabletop"}
SubjectRealCategory == {"Other", "JP", "EN", "CN", "TV", "Movie", "Live", "Show"}

NumericEnums ==
    {"SubjectType", "CharacterType", "PersonType", "EpisodeType", "BloodType",
     "SubjectBookCategory", "SubjectAnimeCategory", "SubjectGameCategory",
     "SubjectRealCategory"}

\* the variants of a numeric enum
ReprVariants(e) ==
    CASE e = "SubjectType" -> SubjectType
      [] e = "CharacterType" -> CharacterType
      [] e = "PersonType" -> PersonType
      [] e = "EpisodeType" -> EpisodeType
      [] e = "BloodType" -> BloodType
      [] e = "SubjectBookCategory" -> SubjectBookCategory
      [] e = "SubjectAnimeCategory" -> SubjectAnimeCategory
      [] e = "SubjectGameCategory" -> SubjectGameCategory
      [] e = "SubjectRealCategory" -> SubjectRealCategory

\* the discriminant of variant v of numeric enum e
Repr(e, v) ==
    CASE e = "SubjectType" -> SubjectTypeRepr(v)
      [] e = "CharacterType" -> CharacterTypeRepr(v)
      [] e = "PersonType" -> PersonTypeRepr(v)
      [] e = "EpisodeType" -> EpisodeTypeRepr(v)
      [] e = "BloodType" -> BloodTypeRepr(v)
      [] e = "SubjectBookCategory" -> SubjectBookCategoryRepr(v)
      [] e = "SubjectAnimeCategory" -> SubjectAnimeCategoryRepr(v)
      [] e = "SubjectGameCategory" -> SubjectGameCategoryRepr(v)
      [] e = "SubjectRealCategory" -> SubjectRealCategoryRepr(v)

\* the bits of the enum's #[repr]: u16 for the category enums, u8 for the others
ReprBits(e) ==
    IF e \in {"SubjectBookCategory", "SubjectAnimeCategory", "SubjectGameCategory",
              "SubjectRealCategory"}
    THEN 16 ELSE 8

\* Serialize_repr: the discriminant as a JSON number
Serialize_repr(e, v) == JNum(Repr(e, v))

\* a faulty variant: an unknown code falls back to some variant of the enum
Deserialize_repr_or_fallback(e, j) ==
    IF j.t # "number" THEN DecodeErr("invalid type", "")
    ELSE IF \E v \in ReprVariants(e) : Repr(e, v) = j.n
    THEN DecodeOk(CHOOSE v \in ReprVariants(e) : Repr(e, v) = j.n)
    ELSE DecodeOk(CHOOSE v \in ReprVariants(e) : TRUE)

\* Deserialize_repr: the value is read as the repr integer (a JSON number in
\* the integer's range) and matched against the discriminants; no match is an
\* error
Deserialize_repr(e, j) ==
    IF j.t # "number" THEN DecodeErr("invalid type", "")
    ELSE IF j.n < 0 \/ j.n >= 2 ^ ReprBits(e) THEN DecodeErr("invalid value", "")
    ELSE IF \E v \in ReprVariants(e) : Repr(e, v) = j.n
    THEN DecodeOk(CHOOSE v \in ReprVariants(e) : Repr(e, v) = j.n)
    ELSE DecodeErr("invalid value", "")

\* the category enum inside each variant of SubjectCategory, in declaration order
SubjectCategoryVariants == <<"Book", "Anime", "Game", "Real">>

CategoryEnum(outer) ==
    CASE outer = "Book" -> "SubjectBookCategory"
      [] outer = "Anime" -> "SubjectAnimeCategory"
      [] outer = "Game" -> "SubjectGameCategory"
      [] outer = "Real" -> "SubjectRealCategory"

\* a faulty variant: the last variant, in declaration order, whose category enum
\* decodes the value
DeserializeSubjectCategoryLastMatch(j) ==
    IF \E n \in 1..4 : Deserialize_repr(CategoryEnum(SubjectCategoryVariants[n]), j).ok
    THEN LET n == CHOOSE n \in 1..4 :
                    /\ Deserialize_repr(CategoryEnum(SubjectCategoryVariants[n]), j).ok
                    /\ \A m \in (n + 1)..4 :
                        ~Deserialize_repr(CategoryEnum(SubjectCategoryVariants[m]), j).ok
         IN  DecodeOk([enum |-> SubjectCategoryVariants[n],
                       variant |-> Unwrap(Deserialize_repr(
                            CategoryEnum(SubjectCategoryVariants[n]), j).value)])
    ELSE DecodeErr("data did not match any variant", "")

\* #[serde(untagged)] Deserialize: the first variant, in declaration order,
\* whose category enum decodes the value
DeserializeSubjectCategory(j) ==
    IF \E n \in 1..4 : Deserialize_repr(CategoryEnum(SubjectCategoryVariants[n]), j).ok
    THEN LET n == CHOOSE n \in 1..4 :
                    /\ Deserialize_repr(CategoryEnum(SubjectCategoryVariants[n]), j).ok
                    /\ \A m \in 1..(n - 1) :
                        ~Deserialize_repr(CategoryEnum(SubjectCategoryVariants[m]), j).ok
         IN  DecodeOk([enum |-> SubjectCategoryVariants[n],
                       variant |-> Unwrap(Deserialize_repr(
                            CategoryEnum(SubjectCategoryVariants[n]), j).value)])
    ELSE DecodeErr("data did not match any variant", "")

(***************************************************************************)
(* InfoboxValue and InfoboxValueItem: #[serde(untagged)]                   *)
(***************************************************************************)
Single(str) == [variant |-> "Single", s |-> str, items |-> <<>>]
List(items) == [variant |-> "List", s |-> "", items |-> items]
KV(k, v) == [variant |-> "KV", k |-> k, v |-> v]
V(v) == [variant |-> "V", k |-> "", v |-> v]

\* the derived visit_map of a struct variant whose fields are Strings: every
\* field is there once with a string value (a field seen twice, a field of
\* another type and a missing field are errors; other keys are ignored)
HasStringFields(j, fields) ==
    /\ j.t = "object"
    /\ \A f \in fields : JCount(j, f) = 1 /\ JGet(j, f).t = "string"
    /\ \A i \in 1..Len(j.members) :
            j.members[i][1] \in fields => j.members[i][2].t = "string"

\* InfoboxValueItem::KV { k, v } read from the buffered content
DeserializeKV(j) ==
    IF HasStringFields(j, {"k", "v"})
    THEN Some(KV(JGet(j, "k").s, JGet(j, "v").s))
    ELSE None

\* a faulty variant: the struct variant is also read from a sequence, by position
DeserializeVFromSeq(j) ==
    IF HasStringFields(j, {"v"}) THEN Some(V(JGet(j, "v").s))
    ELSE IF j.t = "array" /\ Len(j.items) = 1 /\ j.items[1].t = "string"
    THEN Some(V(j.items[1].s))
    ELSE None

\* InfoboxValueItem::V { v } read from the buffered content; an untagged struct
\* variant has no visit_seq, so only a map is accepted
DeserializeV(j) ==
    IF HasStringFields(j, {"v"}) THEN Some(V(JGet(j, "v").s)) ELSE None

\* a faulty variant: V is tried before KV
DeserializeInfoboxValueItemVFirst(j) ==
    IF IsSome(DeserializeV(j)) THEN DeserializeV(j) ELSE DeserializeKV(j)

\* untagged: the first variant, in declaration order, that the content decodes as
DeserializeInfoboxValueItem(j) ==
    IF IsSome(DeserializeKV(j)) THEN DeserializeKV(j) ELSE DeserializeV(j)

\* InfoboxValue::Single(String)
DeserializeSingle(j) == IF j.t = "string" THEN Some(Single(j.s)) ELSE None

\* InfoboxValue::List(Vec<InfoboxValueItem>): a sequence, every element an item
DeserializeList(j) ==
    IF /\ j.t = "array"
       /\ \A i \in 1..Len(j.items) : IsSome(DeserializeInfoboxValueItem(j.items[i]))
    THEN Some(List([i \in 1..Len(j.items) |->
                        Unwrap(DeserializeInfoboxValueItem(j.items[i]))]))
    ELSE None

\* untagged: Single, then List, else "data did not match any variant"
DeserializeInfoboxValue(j) ==
    IF IsSome(DeserializeSingle(j)) THEN DecodeOk(Unwrap(DeserializeSingle(j)))
    ELSE IF IsSome(DeserializeList(j)) THEN DecodeOk(Unwrap(DeserializeList(j)))
    ELSE DecodeErr("data did not match any variant", "")

\* untagged Serialize of an item: the struct variant's fields as a map
SerializeInfoboxValueItem(item) ==
    IF item.variant = "KV"
    THEN JObj(<< <<"k", JStr(item.k)>>, <<"v", JStr(item.v)>> >>)
    ELSE JObj(<< <<"v", JStr(item.v)>> >>)

\* untagged Serialize: the string, or the array of items
SerializeInfoboxValue(value) ==
    IF value.variant = "Single" THEN JStr(value.s)
    ELSE JArr([i \in 1..Len(value.items) |-> SerializeInfoboxValueItem(value.items[i])])

(***************************************************************************)
(* SearchSubjectsBody                                                      *)
(***************************************************************************)
\* derived Serialize: keyword, filter, sort in declaration order
SerializeSearchSubjectsBody(body) ==
    JObj(<< <<"keyword", SerializeString(body.keyword)>>,
            <<"filter", SerializeFilter(body.filter)>>,
            <<"sort", SerializeSortType(body.sort)>> >>)

(***************************************************************************)
(* Query strings                                                           *)
(***************************************************************************)
\* url.query_pairs_mut().append_pair(key, value)
append_pair(key, value) == << <<key, value>> >>

\* serde_urlencoded's value of an Option<u64>: nothing for None, the digits for Some
UrlEncodedU64(o) == IF IsSome(o) THEN Some(to_string(Unwrap(o))) ELSE None

\* a faulty variant: the discriminant 0 is left out like an unset value
UrlEncodedEpisodeTypeNonZero(o) ==
    IF IsSome(o) /\ EpisodeTypeRepr(Unwrap(o)) # 0
    THEN Some(to_string(EpisodeTypeRepr(Unwrap(o)))) ELSE None

\* serde_urlencoded's value of an Option<EpisodeType>: nothing for None, the
\* discriminant's digits for Some (Serialize_repr)
UrlEncodedEpisodeType(o) ==
    IF IsSome(o) THEN Some(to_string(EpisodeTypeRepr(Unwrap(o)))) ELSE None

\* a faulty variant: the variant's name as declared
UrlEncodedImageTypeAsDeclared(t) == Some(t)

\* serde_urlencoded's value of an ImageType: the lowercase name
UrlEncodedImageType(t) == Some(ImageTypeName(t))

\* RequestBuilder::query(&[(key, value)]) through serde_urlencoded: a value that
\* serializes to nothing leaves the pair out
UrlEncodedPair(key, part) ==
    IF IsSome(part) THEN << <<key, Unwrap(part)>> >> ELSE <<>>

QueryKeys(q) == [i \in 1..Len(q) |-> q[i][1]]
QueryCount(q, k) == Cardinality({i \in 1..Len(q) : q[i][1] = k})
QueryValue(q, k) == q[CHOOSE i \in 1..Len(q) : q[i][1] = k][2]

(***************************************************************************)
(* The executor builders (derive_builder, pattern = "owned")               *)
(***************************************************************************)
\* the first field of `fields` the builder has not set, "" when there is none
FirstMissing(b, fields) ==
    IF \E n \in 1..Len(fields) : IsNone(b[fields[n]])
    THEN fields[CHOOSE n \in 1..Len(fields) :
                    /\ IsNone(b[fields[n]])
                    /\ \A m \in 1..(n - 1) : IsSome(b[fields[m]])]
    ELSE ""

BuildOk(e) == [ok |-> TRUE, field |-> "", executor |-> Some(e)]
\* UninitializedFieldError(field)
BuildErr(f) == [ok |-> FALSE, field |-> f, executor |-> None]

\* a faulty variant: a field that was set keeps its first value
SetOnce(b, f, v) == IF IsSome(b[f]) THEN b ELSE [b EXCEPT ![f] = v]

\* a setter: the field takes the value, the other fields stay
Set(b, f, v) == [b EXCEPT ![f] = v]

\* a faulty variant: sort is checked before keyword
SearchSortFirst == <<"client", "sort", "keyword", "filter">>

\* the fields of SearchSubjectsExecutor without #[builder(default)], in
\* declaration order
SearchMandatory == <<"client", "keyword", "sort", "filter">>

\* SearchSubjectsExecutorBuilder::default().client(client)
SearchSubjectsExecutor_builder ==
    [client |-> Some("&Client"), keyword |-> None, sort |-> None, limit |-> None,
     offset |-> None, filter |-> None]

\* SearchSubjectsExecutorBuilder::build
SearchSubjectsExecutorBuilder_build(b) ==
    IF FirstMissing(b, SearchMandatory) # ""
    THEN BuildErr(FirstMissing(b, SearchMandatory))
    ELSE BuildOk([op |-> "search_subjects",
                  keyword |-> Unwrap(b.keyword),
                  sort |-> Unwrap(b.sort),
                  limit |-> Flatten(b.limit),
                  offset |-> Flatten(b.offset),
                  filter |-> Unwrap(b.filter)])

\* a faulty variant: limit and offset are always appended, empty when unset
SearchQueryAlways(e) ==
    append_pair("limit", IF IsSome(e.limit) THEN to_string(Unwrap(e.limit)) ELSE "")
    \o append_pair("offset", IF IsSome(e.offset) THEN to_string(Unwrap(e.offset)) ELSE "")

\* the query of SearchSubjectsExecutor::send
SearchQuery(e) ==
    (IF IsSome(e.limit) THEN append_pair("limit", to_string(Unwrap(e.limit))) ELSE <<>>)
    \o (IF IsSome(e.offset) THEN append_pair("offset", to_string(Unwrap(e.offset)))
        ELSE <<>>)

\* SearchSubjectsExecutor::send
SearchSubjectsExecutor_send(e, c, resp) ==
    LET url == UrlParse(c.base_url, "/v0/search/subjects")
        body == SerializeSearchSubjectsBody(
                    [keyword |-> e.keyword, sort |-> e.sort, filter |-> e.filter])
    IN  IF IsNone(url)
        THEN NotSent("search_subjects", Err("InvalidUrl", "", 0, ""))
        ELSE Sent("search_subjects", c,
                  Request("POST", Unwrap(url), SearchQuery(e),
                          Some("application/json"), Some(body)),
                  resp, Perform(resp, ResponseJson(resp)))

\* the fields of GetSubjectsExecutor without #[builder(default)]
SubjectsMandatory == <<"client", "type">>

\* GetSubjectsExecutorBuilder::default().client(client)
GetSubjectsExecutor_builder ==
    [client |-> Some("&Client"), type |-> None, cat |-> None, series |-> None,
     platform |-> None, sort |-> None, year |-> None, month |-> None,
     limit |-> None, offset |-> None]

\* GetSubjectsExecutorBuilder::build
GetSubjectsExecutorBuilder_build(b) ==
    IF FirstMissing(b, SubjectsMandatory) # ""
    THEN BuildErr(FirstMissing(b, SubjectsMandatory))
    ELSE BuildOk([op |-> "get_subjects",
                  type |-> Unwrap(b.type),
                  cat |-> Flatten(b.cat),
                  series |-> Flatten(b.series),
                  platform |-> Flatten(b.platform),
                  sort |-> Flatten(b.sort),
                  year |-> Flatten(b.year),
                  month |-> Flatten(b.month),
                  limit |-> Flatten(b.limit),
                  offset |-> Flatten(b.offset)])

SubjectTypeToString(t) == serde_json_to_string(SerializeSubjectType(t))
\* a faulty variant: the category by its name
SubjectCategoryToStringNamed(c) == c.variant

SubjectCategoryToString(c) == serde_json_to_string(SerializeSubjectCategory(c))

\* the query of GetSubjectsExecutor::send
SubjectsQuery(e) ==
    append_pair("type", SubjectTypeToString(e.type))
    \o (IF IsSome(e.cat) THEN append_pair("cat", SubjectCategoryToString(Unwrap(e.cat)))
        ELSE <<>>)
    \o (IF IsSome(e.series) THEN append_pair("series", bool_to_string(Unwrap(e.series)))
        ELSE <<>>)
    \o (IF IsSome(e.platform) THEN append_pair("platform", Unwrap(e.platform)) ELSE <<>>)
    \o (IF IsSome(e.sort) THEN append_pair("sort", Unwrap(e.sort)) ELSE <<>>)
    \o (IF IsSome(e.year) THEN append_pair("year", to_string(Unwrap(e.year))) ELSE <<>>)
    \o (IF IsSome(e.month) THEN append_pair("month", to_string(Unwrap(e.month)))
        ELSE <<>>)
    \o (IF IsSome(e.limit) THEN append_pair("limit", to_string(Unwrap(e.limit)))
        ELSE <<>>)
    \o (IF IsSome(e.offset) THEN append_pair("offset", to_string(Unwrap(e.offset)))
        ELSE <<>>)

\* GetSubjectsExecutor::send
GetSubjectsExecutor_send(e, c, resp) ==
    LET url == UrlParse(c.base_url, "/v0/subjects")
    IN  IF IsNone(url)
        THEN NotSent("get_subjects", Err("InvalidUrl", "", 0, ""))
        ELSE Sent("get_subjects", c,
                  Request("GET", Unwrap(url), SubjectsQuery(e),
                          Some("application/json"), None),
                  resp, Perform(resp, ResponseJson(resp)))

\* the fields of GetEpisodesExecutor without #[builder(default)]
EpisodesMandatory == <<"client", "subject_id">>

\* GetEpisodesExecutorBuilder::default().subject_id(subject_id).client(client)
GetEpisodesExecutor_builder(subject_id) ==
    [client |-> Some("&Client"), subject_id |-> Some(subject_id), type |-> None,
     limit |-> None, offset |-> None]

\* GetEpisodesExecutorBuilder::build
GetEpisodesExecutorBuilder_build(b) ==
    IF FirstMissing(b, EpisodesMandatory) # ""
    THEN BuildErr(FirstMissing(b, EpisodesMandatory))
    ELSE BuildOk([op |-> "get_episodes",
                  subject_id |-> Unwrap(b.subject_id),
                  type |-> Flatten(b.type),
                  limit |-> Flatten(b.limit),
                  offset |-> Flatten(b.offset)])

\* the query of GetEpisodesExecutor::send
EpisodesQuery(e) ==
    UrlEncodedPair("subject_id", UrlEncodedU64(Some(e.subject_id)))
    \o UrlEncodedPair("type", UrlEncodedEpisodeType(e.type))
    \o UrlEncodedPair("limit", UrlEncodedU64(e.limit))
    \o UrlEncodedPair("offset", UrlEncodedU64(e.offset))

\* GetEpisodesExecutor::send: the response's status is not checked
GetEpisodesExecutor_send(e, c, resp) ==
    LET url == UrlParse(c.base_url, "/v0/episodes")
    IN  IF IsNone(url)
        THEN NotSent("get_episodes", Err("Reqwest", "Builder", 0, ""))
        ELSE Sent("get_episodes", c,
                  Request("GET", Unwrap(url), EpisodesQuery(e),
                          Some("application/json"), None),
                  resp, PerformUnchecked(resp, ResponseJson(resp)))

(***************************************************************************)
(* The direct operations of the Client                                     *)
(***************************************************************************)
\* the operations that take one id and return decoded JSON
IdJsonOps ==
    {"get_subject", "get_subject_persons", "get_subject_characters",
     "get_subject_subjects", "get_episode", "get_character",
     "get_character_subjects", "get_character_persons", "get_person",
     "get_person_subjects", "get_person_characters"}

\* the operations that take one id and an ImageType and return bytes
IdImageOps == {"get_subject_image", "get_character_image", "get_person_image"}

\* the path each operation formats after the base URL
Path(op, arg) ==
    CASE op = "get_subject" -> "/v0/subjects/" \o arg
      [] op = "get_subject_image" -> "/v0/subjects/" \o arg \o "/image"
      [] op = "get_subject_persons" -> "/v0/subjects/" \o arg \o "/persons"
      [] op = "get_subject_characters" -> "/v0/subjects/" \o arg \o "/characters"
      [] op = "get_subject_subjects" -> "/v0/subjects/" \o arg \o "/subjects"
      [] op = "get_episode" -> "/v0/episodes/" \o arg
      [] op = "get_character" -> "/v0/characters/" \o arg
      [] op = "get_character_image" -> "/v0/characters/" \o arg \o "/image"
      [] op = "get_character_subjects" -> "/v0/characters/" \o arg \o "/subjects"
      [] op = "get_character_persons" -> "/v0/characters/" \o arg \o "/persons"
      [] op = "get_person" -> "/v0/persons/" \o arg
      [] op = "get_person_image" -> "/v0/persons/" \o arg \o "/image"
      [] op = "get_person_subjects" -> "/v0/persons/" \o arg \o "/subjects"
      [] op = "get_person_characters" -> "/v0/persons/" \o arg \o "/characters"
      [] op = "get_user" -> "/v0/users/" \o arg
      [] op = "get_user_avatar" -> "/v0/users/" \o arg \o "/avatar"
      [] op = "get_me" -> "/v0/me"

\* a JSON operation: GET with Accept: application/json, the status checked, the
\* body decoded
Client_get_json(c, op, arg, resp) ==
    LET url == UrlParse(c.base_url, Path(op, arg))
    IN  IF IsNone(url)
        THEN NotSent(op, Err("Reqwest", "Builder", 0, ""))
        ELSE Sent(op, c,
                  Request("GET", Unwrap(url), <<>>, Some("application/json"), None),
                  resp, Perform(resp, ResponseJson(resp)))

\* the usernames of the model, each as its runs of characters: a URL delimiter
\* ('/', '?' or '#') is a run of its own
UsernameRuns ==
    {<<"sai">>, <<"sai", "/", "avatar">>, <<"sai", "?", "type=large">>,
     <<"sai", "#", "top">>}

\* the string of a sequence of runs
RECURSIVE Join(_)
Join(runs) == IF Len(runs) = 0 THEN "" ELSE Head(runs) \o Join(Tail(runs))

\* the runs of a username
Runs(username) == CHOOSE runs \in UsernameRuns : Join(runs) = username

\* the position of the first run of `runs` that is one of `delims`, or one past
\* the end when there is none
First(runs, delims) ==
    IF \E i \in 1..Len(runs) : runs[i] \in delims
    THEN CHOOSE i \in 1..Len(runs) :
            /\ runs[i] \in delims
            /\ \A j \in 1..(i - 1) : runs[j] \notin delims
    ELSE Len(runs) + 1

IsSegment(run) == run # "/"

\* url::Url::parse on what follows the authority: the path ends at the first
\* '?' or '#', the query runs from a '?' to the first '#', the fragment is what
\* follows the first '#'; the path's segments are what '/' separates
Url_parse(runs) ==
    LET p == First(runs, {"?", "#"})
        h == First(runs, {"#"})
    IN  [path_segments |-> SelectSeq(SubSeq(runs, 1, p - 1), IsSegment),
         query |-> IF p < h THEN Some(Join(SubSeq(runs, p + 1, h - 1))) ELSE None,
         fragment |-> IF h <= Len(runs)
                      THEN Some(Join(SubSeq(runs, h + 1, Len(runs))))
                      ELSE None]

\* format!("{}/v0/users/{}", self.base_url, username), after the base URL
UserPath(username, rest) ==
    <<"/", "v0", "/", "users", "/">> \o Runs(username) \o rest

\* a call, its request with the URL as url::Url::parse split it
WithTarget(c, target) ==
    IF c.net = 1
    THEN [c EXCEPT !.request =
            Some([method |-> Unwrap(c.request).method, url |-> Unwrap(c.request).url,
                  query |-> Unwrap(c.request).query, body |-> Unwrap(c.request).body,
                  headers |-> Unwrap(c.request).headers, target |-> target])]
    ELSE c

\* an image operation: GET with ?type=<image type>, the status checked, the
\* body's bytes returned
Client_get_image(c, op, arg, image_type, resp) ==
    LET url == UrlParse(c.base_url, Path(op, arg))
    IN  IF IsNone(url)
        THEN NotSent(op, Err("Reqwest", "Builder", 0, ""))
        ELSE Sent(op, c,
                  Request("GET", Unwrap(url),
                          UrlEncodedPair("type", UrlEncodedImageType(image_type)),
                          None, None),
                  resp, Perform(resp, ResponseBytes(resp)))

\* Client::get_user
Client_get_user(c, username, resp) ==
    WithTarget(Client_get_json(c, "get_user", username, resp),
               Url_parse(UserPath(username, <<>>)))

\* Client::get_user_avatar; .query(&[("type", image_type)]) appends its pair to
\* the query the URL has
Client_get_user_avatar(c, username, image_type, resp) ==
    WithTarget(Client_get_image(c, "get_user_avatar", username, image_type, resp),
               Url_parse(UserPath(username, <<"/", "avatar">>)))

(***************************************************************************)
(* SortType, PersonCareer, ImageType: #[serde(rename_all = "lowercase")]   *)
(***************************************************************************)
PersonCareer ==
    {"Producer", "Mangaka", "Artist", "Seiyu", "Writer", "Illustrator", "Actor"}

\* #[serde(rename_all = "lowercase")]
PersonCareerName(c) ==
    CASE c = "Producer" -> "producer"
      [] c = "Mangaka" -> "mangaka"
      [] c = "Artist" -> "artist"
      [] c = "Seiyu" -> "seiyu"
      [] c = "Writer" -> "writer"
      [] c = "Illustrator" -> "illustrator"
      [] c = "Actor" -> "actor"

\* #[default] Match
SortType_default == "Match"

StringEnums == {"SortType", "PersonCareer", "ImageType"}

StringEnumVariants(e) ==
    CASE e = "SortType" -> SortType
      [] e = "PersonCareer" -> PersonCareer
      [] e = "ImageType" -> ImageType

\* the serialized name of a variant
VariantName(e, v) ==
    CASE e = "SortType" -> SortTypeName(v)
      [] e = "PersonCareer" -> PersonCareerName(v)
      [] e = "ImageType" -> ImageTypeName(v)

\* derived Serialize of a unit variant: serialize_unit_variant, the name as a string
SerializeUnitVariant(e, v) ==
    IF e = "SortType" THEN SerializeSortType(v) ELSE JStr(VariantName(e, v))

\* a faulty variant: the variant identifier is also accepted as declared
VariantOfDeclaredOrName(e, name) ==
    IF \E v \in StringEnumVariants(e) : VariantName(e, v) = name \/ v = name
    THEN Some(CHOOSE v \in StringEnumVariants(e) : VariantName(e, v) = name \/ v = name)
    ELSE None

\* the derived variant identifier: visit_str matches the serialized names
\* exactly, anything else is "unknown variant"
VariantOfName(e, name) ==
    IF \E v \in StringEnumVariants(e) : VariantName(e, v) = name
    THEN Some(CHOOSE v \in StringEnumVariants(e) : VariantName(e, v) = name)
    ELSE None

\* derived Deserialize of an enum of unit variants through serde_json's
\* deserialize_enum: a string is the variant's name; an object must have one
\* member, whose key is the variant's name and whose value is the unit (null);
\* every other value is an error
DeserializeUnitVariant(e, j) ==
    CASE j.t = "string" ->
            IF IsSome(VariantOfName(e, j.s)) THEN DecodeOk(Unwrap(VariantOfName(e, j.s)))
            ELSE DecodeErr("unknown variant", "")
      [] j.t = "object" ->
            IF Len(j.members) = 0 THEN DecodeErr("expected value", "")
            ELSE IF IsNone(VariantOfName(e, j.members[1][1]))
            THEN DecodeErr("unknown variant", "")
            ELSE IF j.members[1][2].t # "null"
            THEN DecodeErr("invalid type", "")
            ELSE IF Len(j.members) > 1
            THEN DecodeErr("expected value", "")
            ELSE DecodeOk(Unwrap(VariantOfName(e, j.members[1][1])))
      [] OTHER -> DecodeErr("expected value", "")

(***************************************************************************)
(* Subject and the structs in it: derived Deserialize                      *)
(***************************************************************************)
Field(key, type) == [key |-> key, type |-> type]

\* the fields of the structs, in declaration order, by their serialized names
StructFields(type) ==
    CASE type = "Subject" ->
            <<Field("id", "u64"), Field("type", "SubjectType"), Field("name", "String"),
              Field("name_cn", "String"), Field("summary", "String"),
              Field("series", "bool"), Field("nsfw", "bool"), Field("locked", "bool"),
              Field("date", "Option<String>"), Field("platform", "String"),
              Field("images", "Images"), Field("image", "Option<String>"),
              Field("infobox", "Vec<Infobox>"), Field("volumes", "u64"),
              Field("eps", "u64"), Field("total_episodes", "Option<u64>"),
              Field("rating", "SubjectRating"), Field("collection", "SubjectCollection"),
              Field("tags", "Vec<SubjectTag>")>>
      [] type = "Images" ->
            <<Field("large", "String"), Field("common", "String"),
              Field("medium", "String"), Field("small", "String"),
              Field("grid", "String")>>
      [] type = "Infobox" ->
            <<Field("key", "String"), Field("value", "InfoboxValue")>>
      [] type = "SubjectRating" ->
            <<Field("rank", "u64"), Field("total", "u64"),
              Field("count", "SubjectRatingCount"), Field("score", "f64")>>
      [] type = "SubjectRatingCount" ->
            <<Field("1", "u64"), Field("2", "u64"), Field("3", "u64"), Field("4", "u64"),
              Field("5", "u64"), Field("6", "u64"), Field("7", "u64"), Field("8", "u64"),
              Field("9", "u64"), Field("10", "u64")>>
      [] type = "SubjectCollection" ->
            <<Field("wish", "usize"), Field("collect", "usize"), Field("doing", "usize"),
              Field("on_hold", "usize"), Field("dropped", "usize")>>
      [] type = "SubjectTag" ->
            <<Field("name", "String"), Field("count", "u64")>>

Structs ==
    {"Subject", "Images", "Infobox", "SubjectRating", "SubjectRatingCount",
     "SubjectCollection", "SubjectTag"}

OptionTypes == {"Option<String>", "Option<u64>"}
VecTypes == {"Vec<Infobox>", "Vec<SubjectTag>"}

\* T of Option<T> and of Vec<T>
Inner(type) ==
    CASE type = "Option<String>" -> "String"
      [] type = "Option<u64>" -> "u64"
      [] type = "Vec<Infobox>" -> "Infobox"
      [] type = "Vec<SubjectTag>" -> "SubjectTag"

FieldKeys(type) == {StructFields(type)[n].key : n \in 1..Len(StructFields(type))}
FieldType(type, key) ==
    StructFields(type)[CHOOSE n \in 1..Len(StructFields(type)) :
                            StructFields(type)[n].key = key].type

\* a faulty variant: every field behaves as if it had #[serde(default)]
MissingFieldDefaults(type) == Some(None)

\* serde::__private::de::missing_field: an Option<T> field that is not in the map
\* is None; a field of any other type is an error
MissingFieldOf(type) == IF type \in OptionTypes THEN Some(None) ELSE None

RECURSIVE DeserializeField(_, _)
RECURSIVE StructVisitMap(_, _, _, _)

\* derived Deserialize, visit_seq: the fields by position, every one of them
StructVisitSeq(type, items) ==
    LET fields == StructFields(type)
        bad(n) == ~DeserializeField(fields[n].type, items[n]).ok
    IN  IF \E n \in 1..Len(fields) : n > Len(items) \/ bad(n)
        THEN LET n == CHOOSE n \in 1..Len(fields) :
                        /\ n > Len(items) \/ bad(n)
                        /\ \A m \in 1..(n - 1) : m <= Len(items) /\ ~bad(m)
             IN  IF n > Len(items) THEN DecodeErr("invalid length", "")
                 ELSE DeserializeField(fields[n].type, items[n])
        ELSE IF Len(items) > Len(fields)
        THEN DecodeErr("trailing characters", "")
        ELSE DecodeOk([k \in FieldKeys(type) |->
                        Unwrap(DeserializeField(FieldType(type, k),
                            items[CHOOSE n \in 1..Len(fields) : fields[n].key = k]).value)])

\* derived Deserialize, visit_map: the members in order; a known key seen twice is
\* an error, an unknown key is ignored; then every field that was not seen gets
\* missing_field
StructVisitMap(type, members, i, acc) ==
    IF i > Len(members)
    THEN LET fields == StructFields(type)
             absent(n) == /\ IsNone(acc[fields[n].key])
                          /\ IsNone(MissingFieldOf(fields[n].type))
             get(k) == IF IsSome(acc[k]) THEN Unwrap(acc[k])
                       ELSE Unwrap(MissingFieldOf(FieldType(type, k)))
         IN  IF \E n \in 1..Len(fields) : absent(n)
             THEN DecodeErr("missing field",
                            fields[CHOOSE n \in 1..Len(fields) :
                                /\ absent(n)
                                /\ \A m \in 1..(n - 1) : ~absent(m)].key)
             ELSE DecodeOk([k \in FieldKeys(type) |-> get(k)])
    ELSE LET key == members[i][1]
             val == members[i][2]
         IN  IF key \notin FieldKeys(type)
             THEN StructVisitMap(type, members, i + 1, acc)
             ELSE IF IsSome(acc[key])
             THEN DecodeErr("duplicate field", key)
             ELSE LET r == DeserializeField(FieldType(type, key), val)
                  IN  IF ~r.ok THEN r
                      ELSE StructVisitMap(type, members, i + 1,
                                          [acc EXCEPT ![key] = r.value])

\* deserialize_struct: a map or a sequence
DeserializeStruct(type, j) ==
    CASE j.t = "object" ->
            StructVisitMap(type, j.members, 1, [k \in FieldKeys(type) |-> None])
      [] j.t = "array" -> StructVisitSeq(type, j.items)
      [] OTHER -> DecodeErr("invalid type", "")

\* Deserialize for the type of a field
DeserializeField(type, j) ==
    CASE type \in {"u64", "usize"} ->
            IF j.t = "number" /\ j.n >= 0 THEN DecodeOk(j.n)
            ELSE DecodeErr("invalid type", "")
      [] type = "f64" ->
            IF j.t = "number" THEN DecodeOk(10 * j.n)
            ELSE IF j.t = "float" THEN DecodeOk(j.n)
            ELSE DecodeErr("invalid type", "")
      [] type = "String" ->
            IF j.t = "string" THEN DecodeOk(j.s) ELSE DecodeErr("invalid type", "")
      [] type = "bool" ->
            IF j.t = "bool" THEN DecodeOk(j.b) ELSE DecodeErr("invalid type", "")
      [] type = "SubjectType" ->
            IF IsSome(DeserializeSubjectType(j))
            THEN DecodeOk(Unwrap(DeserializeSubjectType(j)))
            ELSE DecodeErr("invalid value", "")
      [] type = "InfoboxValue" -> DeserializeInfoboxValue(j)
      [] type \in OptionTypes ->
            IF j.t = "null" THEN DecodeOk(None)
            ELSE LET r == DeserializeField(Inner(type), j)
                 IN  IF r.ok THEN DecodeOk(r.value) ELSE r
      [] type \in VecTypes ->
            IF j.t # "array" THEN DecodeErr("invalid type", "")
            ELSE IF \E n \in 1..Len(j.items) :
                        ~DeserializeField(Inner(type), j.items[n]).ok
            THEN DeserializeField(Inner(type),
                    j.items[CHOOSE n \in 1..Len(j.items) :
                        /\ ~DeserializeField(Inner(type), j.items[n]).ok
                        /\ \A m \in 1..(n - 1) :
                                DeserializeField(Inner(type), j.items[m]).ok])
            ELSE DecodeOk([n \in 1..Len(j.items) |->
                            Unwrap(DeserializeField(Inner(type), j.items[n]).value)])
      [] type \in Structs -> DeserializeStruct(type, j)

\* derived Serialize: every field in declaration order, None as null
RECURSIVE SerializeField(_, _)
SerializeField(type, v) ==
    CASE type \in {"u64", "usize"} -> JNum(v)
      [] type = "f64" -> JFloat(v)
      [] type = "String" -> JStr(v)
      [] type = "bool" -> JBool(v)
      [] type = "SubjectType" -> SerializeSubjectType(v)
      [] type = "InfoboxValue" -> SerializeInfoboxValue(v)
      [] type \in OptionTypes ->
            IF IsSome(v) THEN SerializeField(Inner(type), Unwrap(v)) ELSE JNull
      [] type \in VecTypes ->
            JArr([n \in 1..Len(v) |-> SerializeField(Inner(type), v[n])])
      [] type \in Structs ->
            JObj([n \in 1..Len(StructFields(type)) |->
                    <<StructFields(type)[n].key,
                      SerializeField(StructFields(type)[n].type,
                                     v[StructFields(type)[n].key])>>])

(***************************************************************************)
(* serde_json::from_value::<T> and serde_json::to_value, by the name of T  *)
(***************************************************************************)
WireTypes ==
    NumericEnums \cup StringEnums \cup {"InfoboxValue", "SubjectCategory", "Subject"}

Deserialize(type, j) ==
    CASE type \in NumericEnums -> Deserialize_repr(type, j)
      [] type = "InfoboxValue" -> DeserializeInfoboxValue(j)
      [] type = "SubjectCategory" -> DeserializeSubjectCategory(j)
      [] type = "Subject" -> DeserializeStruct(type, j)
      [] type \in StringEnums -> DeserializeUnitVariant(type, j)

Serialize(type, v) ==
    CASE type \in NumericEnums -> Serialize_repr(type, v)
      [] type = "InfoboxValue" -> SerializeInfoboxValue(v)
      [] type = "SubjectCategory" -> SerializeSubjectCategory(v)
      [] type = "Subject" -> SerializeField(type, v)
      [] type \in StringEnums -> SerializeUnitVariant(type, v)

\* the integers handed to the decoders: around every declared code and around
\* the ends of u8 and u16
WireInts ==
    (-1..7) \cup {255, 256, 65535, 65536} \cup (1000..1004) \cup (4000..4006)
    \cup (6000..6005)

\* JSON values that are not numbers
WireScalars == {JNull, JBool(TRUE), JStr("1"), JStr("")}

\* the elements of the arrays handed to the InfoboxValue decoder: objects with
\* and without k and v, of the right and of other types, and other values
InfoboxElements ==
    {JObj(<< <<"v", JStr("A")>> >>),
     JObj(<< <<"v", JStr("B")>> >>),
     JObj(<< <<"k", JStr("a")>>, <<"v", JStr("A")>> >>),
     JObj(<< <<"v", JStr("B")>>, <<"k", JStr("b")>> >>),
     JObj(<< <<"k", JStr("a")>> >>),
     JObj(<< <<"k", JNum(1)>>, <<"v", JStr("A")>> >>),
     JObj(<< <<"k", JNull>>, <<"v", JStr("A")>> >>),
     JObj(<< <<"k", JStr("a")>>, <<"v", JNum(2)>> >>),
     JObj(<< <<"v", JNull>> >>),
     JObj(<< <<"v", JStr("A")>>, <<"x", JNum(1)>> >>),
     JObj(<< <<"v", JStr("A")>>, <<"v", JStr("B")>> >>),
     JObj(<<>>),
     JStr("A"),
     JArr(<<JStr("A")>>),
     JArr(<<JStr("a"), JStr("A")>>),
     JNum(3),
     JNull}

InfoboxJsons ==
    {JArr(items) : items \in SeqsUpTo(InfoboxElements, MaxLen)}
    \cup {JStr("A"), JStr(""), JNum(3), JBool(TRUE), JNull,
          JObj(<< <<"v", JStr("A")>> >>), JObj(<<>>)}

\* the subject of tests::test_subject, shortened: the members in the order of
\* the test's document, which has no "image"
GoodImages ==
    JObj(<< <<"small", JStr("s.jpg")>>, <<"grid", JStr("g.jpg")>>,
            <<"large", JStr("l.jpg")>>, <<"medium", JStr("m.jpg")>>,
            <<"common", JStr("c.jpg")>> >>)
GoodCount ==
    JObj(<< <<"1", JNum(2)>>, <<"2", JNum(3)>>, <<"3", JNum(3)>>, <<"4", JNum(9)>>,
            <<"5", JNum(36)>>, <<"6", JNum(120)>>, <<"7", JNum(291)>>,
            <<"8", JNum(366)>>, <<"9", JNum(123)>>, <<"10", JNum(79)>> >>)
GoodRating ==
    JObj(<< <<"rank", JNum(1824)>>, <<"total", JNum(1032)>>, <<"count", GoodCount>>,
            <<"score", JFloat(76)>> >>)
GoodCollection ==
    JObj(<< <<"on_hold", JNum(165)>>, <<"dropped", JNum(87)>>, <<"wish", JNum(274)>>,
            <<"collect", JNum(1109)>>, <<"doing", JNum(327)>> >>)
GoodTags ==
    JArr(<<JObj(<< <<"name", JStr("index")>>, <<"count", JNum(296)>> >>),
           JObj(<< <<"name", JStr("novel")>>, <<"count", JNum(281)>> >>)>>)
GoodInfobox ==
    JArr(<<JObj(<< <<"key", JStr("name")>>, <<"value", JStr("index")>> >>),
           JObj(<< <<"key", JStr("alias")>>,
                   <<"value", JArr(<<JObj(<< <<"v", JStr("A")>> >>),
                                     JObj(<< <<"v", JStr("B")>> >>)>>)>> >>)>>)
GoodSubject ==
    JObj(<< <<"date", JStr("2004-04-24")>>, <<"platform", JStr("novel")>>,
            <<"images", GoodImages>>, <<"summary", JStr("story")>>,
            <<"name", JStr("index")>>, <<"name_cn", JStr("index_cn")>>,
            <<"tags", GoodTags>>, <<"infobox", GoodInfobox>>,
            <<"rating", GoodRating>>, <<"total_episodes", JNum(0)>>,
            <<"collection", GoodCollection>>, <<"id", JNum(3559)>>,
            <<"eps", JNum(0)>>, <<"volumes", JNum(24)>>, <<"series", JBool(TRUE)>>,
            <<"locked", JBool(FALSE)>>, <<"nsfw", JBool(FALSE)>>,
            <<"type", JNum(1)>> >>)

\* the object without its members named key
JWithout(j, key) == JObj(SelectSeq(j.members, LAMBDA m : m[1] # key))

\* the object with the member named key set to val (added at the end if new)
JWith(j, key, val) ==
    IF JHasKey(j, key)
    THEN JObj([i \in 1..Len(j.members) |->
                IF j.members[i][1] = key THEN <<key, val>> ELSE j.members[i]])
    ELSE JObj(Append(j.members, <<key, val>>))

\* a value no decoder of the type accepts
WrongValue(type) ==
    CASE type \in {"u64", "usize", "f64", "Option<u64>"} -> JStr("1")
      [] type \in {"String", "Option<String>"} -> JNum(1)
      [] type = "bool" -> JStr("true")
      [] type = "SubjectType" -> JNum(5)
      [] type \in VecTypes -> JObj(<<>>)
      [] type \in Structs -> JStr("x")

PerturbKinds == {"absent", "null", "wrong"}

\* the document with one field left out, null, or of a wrong type
Perturb(j, field, kind) ==
    CASE kind = "absent" -> JWithout(j, field.key)
      [] kind = "null" -> JWith(j, field.key, JNull)
      [] kind = "wrong" -> JWith(j, field.key, WrongValue(field.type))

\* the documents with at most budget of the fields n.. of Subject perturbed
RECURSIVE PerturbFrom(_, _, _)
PerturbFrom(j, n, budget) ==
    IF n > Len(StructFields("Subject")) \/ budget = 0 THEN {j}
    ELSE PerturbFrom(j, n + 1, budget)
         \cup UNION {PerturbFrom(Perturb(j, StructFields("Subject")[n], kind),
                                 n + 1, budget - 1) : kind \in PerturbKinds}

\* documents that differ from the good one inside a field, in a repeated or an
\* unknown member, or in not being an object
OtherSubjects ==
    {JWith(GoodSubject, "image", JStr("i.jpg")),
     JWith(GoodSubject, "id", JNum(-1)),
     JWith(GoodSubject, "id", JFloat(35595)),
     JWith(GoodSubject, "eps", JBool(TRUE)),
     JWith(GoodSubject, "type", JStr("1")),
     JWith(GoodSubject, "images", JWithout(GoodImages, "grid")),
     JWith(GoodSubject, "images", JWith(GoodImages, "grid", JNull)),
     JWith(GoodSubject, "images",
           JArr(<<JStr("l"), JStr("c"), JStr("m"), JStr("s"), JStr("g")>>)),
     JWith(GoodSubject, "images", JArr(<<JStr("l"), JStr("c")>>)),
     JWith(GoodSubject, "rating", JWith(GoodRating, "score", JNum(7))),
     JWith(GoodSubject, "rating", JWith(GoodRating, "score", JStr("7.6"))),
     JWith(GoodSubject, "rating", JWith(GoodRating, "rank", JFloat(18245))),
     JWith(GoodSubject, "rating",
           JWith(GoodRating, "count", JWithout(GoodCount, "10"))),
     JWith(GoodSubject, "rating",
           JWith(GoodRating, "count", JWith(GoodCount, "10", JStr("79")))),
     JWith(GoodSubject, "collection", JWithout(GoodCollection, "wish")),
     JWith(GoodSubject, "collection", JWith(GoodCollection, "wish", JNum(-1))),
     JWith(GoodSubject, "tags", JArr(<<>>)),
     JWith(GoodSubject, "tags", JArr(<<JObj(<< <<"name", JStr("index")>> >>)>>)),
     JWith(GoodSubject, "tags", JArr(<<JStr("index")>>)),
     JWith(GoodSubject, "infobox", JArr(<<>>)),
     JWith(GoodSubject, "infobox",
           JArr(<<JObj(<< <<"key", JStr("name")>>, <<"value", JNum(1)>> >>)>>)),
     JWith(GoodSubject, "infobox",
           JArr(<<JObj(<< <<"key", JStr("name")>>,
                          <<"value", JArr(<<JObj(<< <<"k", JStr("a")>> >>)>>)>> >>)>>)),
     JWith(GoodSubject, "infobox", JArr(<<JObj(<< <<"key", JStr("name")>> >>)>>)),
     JWith(GoodSubject, "extra", JNum(1)),
     JObj(Append(GoodSubject.members, <<"id", JNum(3559)>>)),
     JObj(Append(GoodSubject.members, <<"date", JNull>>)),
     JObj(<<>>),
     JArr(<<>>),
     JStr("subject"),
     JNull}

SubjectJsons == PerturbFrom(GoodSubject, 1, MaxPerturbed) \cup OtherSubjects

\* the strings handed to the decoders of the string enums: the names of the
\* variants of all three as serialized and as declared, and others
VariantStrings ==
    UNION {{VariantName(e, v) : v \in StringEnumVariants(e)} \cup StringEnumVariants(e) :
                e \in StringEnums}
    \cup {"MATCH", "SMALL", "ACTOR", "", " match", "match ", "0"}

StringEnumJsons ==
    {JStr(str) : str \in VariantStrings}
    \cup {JObj(<< <<str, JNull>> >>) : str \in VariantStrings}
    \cup {JObj(<< <<"match", JStr("match")>> >>), JObj(<< <<"small", JNum(0)>> >>),
          JObj(<< <<"match", JNull>>, <<"heat", JNull>> >>),
          JObj(<< <<"actor", JNull>>, <<"actor", JNull>> >>),
          JObj(<<>>), JArr(<<JStr("match")>>), JArr(<<JStr("actor")>>), JArr(<<>>),
          JNum(0), JNum(1), JBool(TRUE), JNull}

\* the JSON values handed to the decoder of a type
WireJsons(type) ==
    CASE type \in NumericEnums -> {JNum(n) : n \in WireInts} \cup WireScalars
      [] type = "InfoboxValue" -> InfoboxJsons
      [] type = "SubjectCategory" -> {JNum(n) : n \in WireInts} \cup WireScalars
      [] type = "Subject" -> SubjectJsons
      [] type \in StringEnums -> StringEnumJsons

\* the values of a type handed to its encoder
WireValues(type) ==
    CASE type \in NumericEnums -> ReprVariants(type)
      [] type = "InfoboxValue" ->
            {Single("A"), List(<<>>), List(<<V("A"), KV("b", "B")>>)}
      [] type = "SubjectCategory" -> SubjectCategory
      [] type = "Subject" -> {}
      [] type \in StringEnums -> StringEnumVariants(type)

(***************************************************************************)
(* What the caller hands to the setters                                    *)
(***************************************************************************)
Keywords == {"index", "railgun"}
Filters ==
    {DefaultFilter,
     [DefaultFilter EXCEPT !.type = <<"Anime">>],
     [DefaultFilter EXCEPT !.tag = <<"magic">>, !.nsfw = TRUE]}
Categories ==
    {[enum |-> "Book", variant |-> "Novel"], [enum |-> "Anime", variant |-> "TV"]}
Platforms == {"PC"}
Sorts == {"date"}
Years == {2023}
Months == {7}
Usernames == {Join(runs) : runs \in UsernameRuns}
Ids == {3559}

\* the lists of the filters handed to the codec
CodecFilters ==
    [type : SeqsUpTo({"Anime", "Book"}, MaxLen),
     tag : SeqsUpTo({"magic"}, MaxLen),
     air_date : SeqsUpTo({">=2020-07-01"}, MaxLen),
     rating : SeqsUpTo({">=6"}, MaxLen),
     rank : SeqsUpTo({"<=18"}, MaxLen),
     nsfw : BOOLEAN]

(***************************************************************************)
(* Actions: building the Client                                            *)
(***************************************************************************)
Ready == IsSome(client)
Idle == IsNone(searchBuilder) /\ IsNone(subjectsBuilder) /\ IsNone(episodesBuilder)

\* ClientBuilder::base_url
ClientBuilderBaseUrl(u) ==
    /\ IsNone(client)
    /\ ~aborted
    /\ clientBuilder' = Set(clientBuilder, "base_url", Some(u))
    /\ UNCHANGED <<client, builderVars, executor, call, codecVars, filterVars, restVars>>

\* ClientBuilder::user_agent (strip_option)
ClientBuilderUserAgent(u) ==
    /\ IsNone(client)
    /\ ~aborted
    /\ clientBuilder' = Set(clientBuilder, "user_agent", Some(Some(u)))
    /\ UNCHANGED <<client, builderVars, executor, call, codecVars, filterVars, restVars>>

\* ClientBuilder::token (strip_option)
ClientBuilderToken(t) ==
    /\ IsNone(client)
    /\ ~aborted
    /\ clientBuilder' = Set(clientBuilder, "token", Some(Some(t)))
    /\ UNCHANGED <<client, builderVars, executor, call, codecVars, filterVars, restVars>>

\* ClientBuilder::client
ClientBuilderClient(rc) ==
    /\ IsNone(client)
    /\ ~aborted
    /\ clientBuilder' = Set(clientBuilder, "client", Some(rc))
    /\ UNCHANGED <<client, builderVars, executor, call, codecVars, filterVars, restVars>>

\* ClientBuilder::build
ClientBuild ==
    /\ IsNone(client)
    /\ ~aborted
    /\ IF ClientBuilder_build_panics(clientBuilder)
       THEN aborted' = TRUE /\ client' = client
       ELSE aborted' = aborted /\ client' = Some(ClientBuilder_build(clientBuilder))
    /\ UNCHANGED <<clientBuilder, builderVars, executor, call, codecVars, filterVars, wireVars,
                   inflight>>

\* Client::new: Self::builder().build()
ClientNew ==
    /\ IsNone(client)
    /\ ~aborted
    /\ clientBuilder = DefaultClientBuilder
    /\ client' = Some(ClientBuilder_build(DefaultClientBuilder))
    /\ UNCHANGED <<clientBuilder, builderVars, executor, call, codecVars, filterVars, restVars>>

(***************************************************************************)
(* Actions: the direct operations                                          *)
(***************************************************************************)
Direct(c) ==
    /\ Ready
    /\ Idle
    /\ call' = Some(c)
    /\ executor' = None
    /\ UNCHANGED <<clientVars, builderVars, codecVars, filterVars, restVars>>

\* get_subject, get_episode, get_character, get_person and their relations
GetById(op, id, resp) ==
    Direct(Client_get_json(Unwrap(client), op, to_string(id), resp))

\* get_subject_image, get_character_image, get_person_image
GetImage(op, id, image_type, resp) ==
    Direct(Client_get_image(Unwrap(client), op, to_string(id), image_type, resp))

\* get_user
GetUser(username, resp) ==
    Direct(Client_get_user(Unwrap(client), username, resp))

\* get_user_avatar
GetUserAvatar(username, image_type, resp) ==
    Direct(Client_get_user_avatar(Unwrap(client), username, image_type, resp))

\* get_me
GetMe(resp) ==
    Direct(Client_get_json(Unwrap(client), "get_me", "", resp))

(***************************************************************************)
(* Actions: search subjects                                                *)
(***************************************************************************)
\* Client::search_subjects
SearchSubjects ==
    /\ Ready
    /\ Idle
    /\ searchBuilder' = Some(SearchSubjectsExecutor_builder)
    /\ executor' = None
    /\ call' = None
    /\ UNCHANGED <<clientVars, subjectsBuilder, episodesBuilder, codecVars, filterVars, restVars>>

SearchSet(f, v) ==
    /\ IsSome(searchBuilder)
    /\ searchBuilder' = Some(Set(Unwrap(searchBuilder), f, v))
    /\ UNCHANGED <<clientVars, subjectsBuilder, episodesBuilder, executor, call,
                   codecVars, filterVars, restVars>>

SearchKeyword(k) == SearchSet("keyword", Some(k))
SearchSort(s) == SearchSet("sort", Some(s))
SearchLimit(n) == SearchSet("limit", Some(Some(n)))
SearchOffset(n) == SearchSet("offset", Some(Some(n)))
SearchFilter(f) == SearchSet("filter", Some(f))

\* the result of a build, as the caller sees it
BuildCall(op, r) ==
    NotSent(op, IF r.ok THEN Ok("executor") ELSE Err("Builder", "", 0, r.field))

\* SearchSubjectsExecutorBuilder::build
SearchBuild ==
    /\ IsSome(searchBuilder)
    /\ LET r == SearchSubjectsExecutorBuilder_build(Unwrap(searchBuilder))
       IN  /\ executor' = r.executor
           /\ call' = Some(BuildCall("search_subjects", r))
    /\ searchBuilder' = None
    /\ UNCHANGED <<clientVars, subjectsBuilder, episodesBuilder, codecVars, filterVars, restVars>>

\* SearchSubjectsExecutorBuilder::send: self.build()?.send().await
SearchBuilderSend(resp) ==
    /\ IsSome(searchBuilder)
    /\ LET r == SearchSubjectsExecutorBuilder_build(Unwrap(searchBuilder))
       IN  call' = IF r.ok
                   THEN Some(SearchSubjectsExecutor_send(Unwrap(r.executor),
                                                         Unwrap(client), resp))
                   ELSE Some(BuildCall("search_subjects", r))
    /\ searchBuilder' = None
    /\ executor' = None
    /\ UNCHANGED <<clientVars, subjectsBuilder, episodesBuilder, codecVars, filterVars, restVars>>

\* SearchSubjectsExecutor::send(&self)
SearchExecutorSend(resp) ==
    /\ IsSome(executor)
    /\ Unwrap(executor).op = "search_subjects"
    /\ call' = Some(SearchSubjectsExecutor_send(Unwrap(executor), Unwrap(client), resp))
    /\ UNCHANGED <<clientVars, builderVars, executor, codecVars, filterVars, restVars>>

(***************************************************************************)
(* Actions: list subjects                                                  *)
(***************************************************************************)
\* Client::get_subjects
GetSubjects ==
    /\ Ready
    /\ Idle
    /\ subjectsBuilder' = Some(GetSubjectsExecutor_builder)
    /\ executor' = None
    /\ call' = None
    /\ UNCHANGED <<clientVars, searchBuilder, episodesBuilder, codecVars, filterVars, restVars>>

SubjectsSet(f, v) ==
    /\ IsSome(subjectsBuilder)
    /\ subjectsBuilder' = Some(Set(Unwrap(subjectsBuilder), f, v))
    /\ UNCHANGED <<clientVars, searchBuilder, episodesBuilder, executor, call,
                   codecVars, filterVars, restVars>>

SubjectsType(t) == SubjectsSet("type", Some(t))
SubjectsCat(c) == SubjectsSet("cat", Some(Some(c)))
SubjectsSeries(b) == SubjectsSet("series", Some(Some(b)))
SubjectsPlatform(p) == SubjectsSet("platform", Some(Some(p)))
SubjectsSort(s) == SubjectsSet("sort", Some(Some(s)))
SubjectsYear(n) == SubjectsSet("year", Some(Some(n)))
SubjectsMonth(n) == SubjectsSet("month", Some(Some(n)))
SubjectsLimit(n) == SubjectsSet("limit", Some(Some(n)))
SubjectsOffset(n) == SubjectsSet("offset", Some(Some(n)))

\* GetSubjectsExecutorBuilder::build
SubjectsBuild ==
    /\ IsSome(subjectsBuilder)
    /\ LET r == GetSubjectsExecutorBuilder_build(Unwrap(subjectsBuilder))
       IN  /\ executor' = r.executor
           /\ call' = Some(BuildCall("get_subjects", r))
    /\ subjectsBuilder' = None
    /\ UNCHANGED <<clientVars, searchBuilder, episodesBuilder, codecVars, filterVars, restVars>>

\* GetSubjectsExecutorBuilder::send: self.build()?.send().await
SubjectsBuilderSend(resp) ==
    /\ IsSome(subjectsBuilder)
    /\ LET r == GetSubjectsExecutorBuilder_build(Unwrap(subjectsBuilder))
       IN  call' = IF r.ok
                   THEN Some(GetSubjectsExecutor_send(Unwrap(r.executor),
                                                      Unwrap(client), resp))
                   ELSE Some(BuildCall("get_subjects", r))
    /\ subjectsBuilder' = None
    /\ executor' = None
    /\ UNCHANGED <<clientVars, searchBuilder, episodesBuilder, codecVars, filterVars, restVars>>

\* GetSubjectsExecutor::send(&self)
SubjectsExecutorSend(resp) ==
    /\ IsSome(executor)
    /\ Unwrap(executor).op = "get_subjects"
    /\ call' = Some(GetSubjectsExecutor_send(Unwrap(executor), Unwrap(client), resp))
    /\ UNCHANGED <<clientVars, builderVars, executor, codecVars, filterVars, restVars>>

(***************************************************************************)
(* Actions: list episodes                                                  *)
(***************************************************************************)
\* Client::get_episodes
GetEpisodes(subject_id) ==
    /\ Ready
    /\ Idle
    /\ episodesBuilder' = Some(GetEpisodesExecutor_builder(subject_id))
    /\ executor' = None
    /\ call' = None
    /\ UNCHANGED <<clientVars, searchBuilder, subjectsBuilder, codecVars, filterVars, restVars>>

EpisodesSet(f, v) ==
    /\ IsSome(episodesBuilder)
    /\ episodesBuilder' = Some(Set(Unwrap(episodesBuilder), f, v))
    /\ UNCHANGED <<clientVars, searchBuilder, subjectsBuilder, executor, call,
                   codecVars, filterVars, restVars>>

EpisodesType(t) == EpisodesSet("type", Some(Some(t)))
EpisodesLimit(n) == EpisodesSet("limit", Some(Some(n)))
EpisodesOffset(n) == EpisodesSet("offset", Some(Some(n)))

\* GetEpisodesExecutorBuilder::build
EpisodesBuild ==
    /\ IsSome(episodesBuilder)
    /\ LET r == GetEpisodesExecutorBuilder_build(Unwrap(episodesBuilder))
       IN  /\ executor' = r.executor
           /\ call' = Some(BuildCall("get_episodes", r))
    /\ episodesBuilder' = None
    /\ UNCHANGED <<clientVars, searchBuilder, subjectsBuilder, codecVars, filterVars, restVars>>

\* GetEpisodesExecutorBuilder::send: self.build()?.send().await
EpisodesBuilderSend(resp) ==
    /\ IsSome(episodesBuilder)
    /\ LET r == GetEpisodesExecutorBuilder_build(Unwrap(episodesBuilder))
       IN  call' = IF r.ok
                   THEN Some(GetEpisodesExecutor_send(Unwrap(r.executor),
                                                      Unwrap(client), resp))
                   ELSE Some(BuildCall("get_episodes", r))
    /\ episodesBuilder' = None
    /\ executor' = None
    /\ UNCHANGED <<clientVars, searchBuilder, subjectsBuilder, codecVars, filterVars, restVars>>

\* GetEpisodesExecutor::send(&self)
EpisodesExecutorSend(resp) ==
    /\ IsSome(executor)
    /\ Unwrap(executor).op = "get_episodes"
    /\ call' = Some(GetEpisodesExecutor_send(Unwrap(executor), Unwrap(client), resp))
    /\ UNCHANGED <<clientVars, builderVars, executor, codecVars, filterVars, restVars>>

(***************************************************************************)
(* Actions: the codec                                                      *)
(***************************************************************************)
\* serde_json::to_value(&filter)
EncodeFilter ==
    /\ IsNone(codecJson)
    /\ codecJson' = Some(SerializeFilter(codecIn))
    /\ UNCHANGED <<clientVars, builderVars, executor, call, codecIn, codecOut,
                   filterVars, restVars>>

\* serde_json::from_value::<SearchSubjectsFilter>(json)
DecodeFilter ==
    /\ IsSome(codecJson)
    /\ IsNone(codecOut)
    /\ codecOut' = Some(DeserializeFilter(Unwrap(codecJson)))
    /\ UNCHANGED <<clientVars, builderVars, executor, call, codecIn, codecJson,
                   filterVars, restVars>>

(***************************************************************************)
(* Actions: the SearchSubjectsFilter builder                               *)
(***************************************************************************)
\* the items the per-item setters are called with
FilterItems(f) ==
    CASE f = "type" -> {"Anime", "Book"}
      [] f = "tag" -> {"magic"}
      [] f = "air_date" -> {">=2020-07-01"}
      [] f = "rating" -> {">=6"}
      [] f = "rank" -> {"<=18"}

\* SearchSubjectsFilter::builder()
SearchSubjectsFilter_builder ==
    /\ IsNone(filterBuilder)
    /\ filterBuilder' = Some(DefaultFilterBuilder)
    /\ UNCHANGED <<clientVars, builderVars, executor, call, codecVars, filter,
                   restVars>>

\* the per-item setters r#type, tag, air_date, rating, rank
FilterEach(f, item) ==
    /\ IsSome(filterBuilder)
    /\ Len(ListSoFar(Unwrap(filterBuilder), f)) < MaxLen
    /\ filterBuilder' = Some(Each(Unwrap(filterBuilder), f, item))
    /\ filter' = None
    /\ UNCHANGED <<clientVars, builderVars, executor, call, codecVars, restVars>>

\* the whole-list setters types, tags, air_dates, ratings, ranks
FilterList(f, list) ==
    /\ IsSome(filterBuilder)
    /\ filterBuilder' = Some(Set(Unwrap(filterBuilder), f, Some(list)))
    /\ filter' = None
    /\ UNCHANGED <<clientVars, builderVars, executor, call, codecVars, restVars>>

\* the setter nsfw
FilterNsfw(nsfw) ==
    /\ IsSome(filterBuilder)
    /\ filterBuilder' = Some(Set(Unwrap(filterBuilder), "nsfw", Some(nsfw)))
    /\ filter' = None
    /\ UNCHANGED <<clientVars, builderVars, executor, call, codecVars, restVars>>

\* SearchSubjectsFilterBuilder::build(&self): the builder stays as it is
FilterBuild ==
    /\ IsSome(filterBuilder)
    /\ filter' = Some(SearchSubjectsFilterBuilder_build(Unwrap(filterBuilder)))
    /\ UNCHANGED <<clientVars, builderVars, executor, call, codecVars,
                   filterBuilder, restVars>>

\* serde_json::from_value::<T>(json)
DecodeWire ==
    /\ wireOp \in {"none", "encoded"}
    /\ IsSome(wireJson)
    /\ wireValue' = Some(Deserialize(wireType, Unwrap(wireJson)))
    /\ wireOp' = "decoded"
    /\ UNCHANGED <<clientVars, builderVars, executor, call, codecVars, filterVars, wireType,
                   wireJson, inflight, aborted>>

\* serde_json::to_value(&value)
EncodeWire ==
    /\ wireOp \in {"none", "decoded"}
    /\ IsSome(wireValue)
    /\ Unwrap(wireValue).ok
    /\ wireJson' = Some(Serialize(wireType, Unwrap(Unwrap(wireValue).value)))
    /\ wireOp' = "encoded"
    /\ UNCHANGED <<clientVars, builderVars, executor, call, codecVars, filterVars, wireType,
                   wireValue, inflight, aborted>>

Slots == 1..MaxInflight

NoFlights == inflight = [s \in Slots |-> None]

(***************************************************************************)
(* Actions: operations of one Client in flight at the same time. A call    *)
(* takes &self (an executor holds &Client); its future renders the request *)
(* and hands it to the transport, and resumes when the response is there.  *)
(***************************************************************************)
\* the finished call of operation f on client c, answered with resp
Finish(f, c, resp) ==
    IF IsSome(f.executor)
    THEN GetEpisodesExecutor_send(Unwrap(f.executor), c, resp)
    ELSE Client_get_json(c, f.op, f.arg, resp)

\* the request operation f hands to the transport: it is built before there is
\* a response, and is the same whatever the response will be
Rendering(f, c) == Finish(f, c, CHOOSE r \in Responses : TRUE).request

\* the operation takes a free slot: its request is rendered and goes out
Issue(slot, f) ==
    /\ Ready
    /\ IsNone(inflight[slot])
    /\ IsSome(Rendering(f, Unwrap(client)))
    /\ inflight' = [inflight EXCEPT ![slot] =
                        Some([op |-> f.op, arg |-> f.arg, executor |-> f.executor,
                              request |-> Unwrap(Rendering(f, Unwrap(client)))])]
    /\ UNCHANGED <<clientVars, builderVars, executor, call, codecVars, filterVars, wireVars,
                   aborted>>

\* get_subject, get_episode (one id) and get_me issued while others are in flight
IssueDirect(slot, op, arg) ==
    Issue(slot, [op |-> op, arg |-> arg, executor |-> None])

\* client.get_episodes(subject_id).limit(..).build()?.send() issued while others
\* are in flight
IssueEpisodes(slot, subject_id, limit) ==
    Issue(slot, [op |-> "get_episodes", arg |-> "",
                 executor |-> GetEpisodesExecutorBuilder_build(
                    Set(GetEpisodesExecutor_builder(subject_id), "limit", limit)).executor])

\* a faulty variant: the answered call is given the request of the lowest slot
\* in flight, as if the operations shared one request
AnswerShared(slot, resp) ==
    /\ IsSome(inflight[slot])
    /\ call' = Some([Finish(Unwrap(inflight[slot]), Unwrap(client), resp) EXCEPT
                        !.request = Some(Unwrap(inflight[
                            CHOOSE n \in Slots :
                                /\ IsSome(inflight[n])
                                /\ \A m \in 1..(n - 1) : IsNone(inflight[m])]).request)])
    /\ inflight' = [inflight EXCEPT ![slot] = None]
    /\ UNCHANGED <<clientVars, builderVars, executor, codecVars, filterVars, wireVars, aborted>>

\* the transport answers the operation in the slot, in any order: the call
\* finishes with its result
Answer(slot, resp) ==
    /\ IsSome(inflight[slot])
    /\ call' = Some(Finish(Unwrap(inflight[slot]), Unwrap(client), resp))
    /\ inflight' = [inflight EXCEPT ![slot] = None]
    /\ UNCHANGED <<clientVars, builderVars, executor, codecVars, filterVars, wireVars, aborted>>

(***************************************************************************)
(* Specifications                                                          *)
(***************************************************************************)
NoBuilders ==
    /\ searchBuilder = None
    /\ subjectsBuilder = None
    /\ episodesBuilder = None
    /\ executor = None
    /\ call = None

NoCodec ==
    /\ codecIn = DefaultFilter
    /\ codecJson = None
    /\ codecOut = None

NoFilter ==
    /\ filterBuilder = None
    /\ filter = None

NoWire ==
    /\ wireType = ""
    /\ wireJson = None
    /\ wireValue = None
    /\ wireOp = "none"

\* Spec: every way of building the Client, then every operation with its
\* mandatory parameters
Init ==
    /\ clientBuilder = DefaultClientBuilder
    /\ client = None
    /\ NoBuilders
    /\ NoCodec
    /\ NoWire
    /\ NoFlights
    /\ NoFilter
    /\ aborted = FALSE

Next ==
    \/ \E u \in BaseUrls : ClientBuilderBaseUrl(u)
    \/ \E u \in UserAgents : ClientBuilderUserAgent(u)
    \/ \E t \in Tokens : ClientBuilderToken(t)
    \/ \E rc \in ReqwestClients : ClientBuilderClient(rc)
    \/ ClientBuild
    \/ ClientNew
    \/ \E op \in IdJsonOps, id \in Ids, resp \in Responses : GetById(op, id, resp)
    \/ \E op \in IdImageOps, id \in Ids, t \in ImageType, resp \in Responses :
            GetImage(op, id, t, resp)
    \/ \E n \in Usernames, resp \in Responses : GetUser(n, resp)
    \/ \E n \in Usernames, t \in ImageType, resp \in Responses :
            GetUserAvatar(n, t, resp)
    \/ \E resp \in Responses : GetMe(resp)
    \/ SearchSubjects
    \/ \E k \in Keywords : SearchKeyword(k)
    \/ \E s \in SortType : SearchSort(s)
    \/ \E f \in Filters : SearchFilter(f)
    \/ SearchBuild
    \/ \E resp \in Responses : SearchBuilderSend(resp)
    \/ \E resp \in Responses : SearchExecutorSend(resp)
    \/ GetSubjects
    \/ \E t \in SubjectType : SubjectsType(t)
    \/ SubjectsBuild
    \/ \E resp \in Responses : SubjectsBuilderSend(resp)
    \/ \E resp \in Responses : SubjectsExecutorSend(resp)
    \/ \E id \in U64 : GetEpisodes(id)
    \/ EpisodesBuild
    \/ \E resp \in Responses : EpisodesBuilderSend(resp)
    \/ \E resp \in Responses : EpisodesExecutorSend(resp)

Spec == Init /\ [][Next]_vars

\* SpecRequests: a Client::new() client, then every request the three request
\* builders can render
InitRequests ==
    /\ clientBuilder = DefaultClientBuilder
    /\ client = Some(ClientBuilder_build(DefaultClientBuilder))
    /\ NoBuilders
    /\ NoCodec
    /\ NoWire
    /\ NoFlights
    /\ NoFilter
    /\ aborted = FALSE

NextRequests ==
    \/ SearchSubjects
    \/ \E k \in Keywords : SearchKeyword(k)
    \/ \E s \in SortType : SearchSort(s)
    \/ \E n \in U64 : SearchLimit(n)
    \/ \E n \in U64 : SearchOffset(n)
    \/ \E f \in Filters : SearchFilter(f)
    \/ SearchBuild
    \/ \E resp \in Responses : SearchBuilderSend(resp)
    \/ \E resp \in Responses : SearchExecutorSend(resp)
    \/ GetSubjects
    \/ \E t \in SubjectType : SubjectsType(t)
    \/ \E c \in Categories : SubjectsCat(c)
    \/ \E b \in BOOLEAN : SubjectsSeries(b)
    \/ \E p \in Platforms : SubjectsPlatform(p)
    \/ \E s \in Sorts : SubjectsSort(s)
    \/ \E n \in Years : SubjectsYear(n)
    \/ \E n \in Months : SubjectsMonth(n)
    \/ \E n \in U64 : SubjectsLimit(n)
    \/ \E n \in U64 : SubjectsOffset(n)
    \/ SubjectsBuild
    \/ \E resp \in Responses : SubjectsBuilderSend(resp)
    \/ \E resp \in Responses : SubjectsExecutorSend(resp)
    \/ \E id \in U64 : GetEpisodes(id)
    \/ \E t \in EpisodeType : EpisodesType(t)
    \/ \E n \in U64 : EpisodesLimit(n)
    \/ \E n \in U64 : EpisodesOffset(n)
    \/ EpisodesBuild
    \/ \E resp \in Responses : EpisodesBuilderSend(resp)
    \/ \E resp \in Responses : EpisodesExecutorSend(resp)

SpecRequests == InitRequests /\ [][NextRequests]_vars

\* SpecCodec: every filter within the bounds, encoded and then decoded
InitCodec ==
    /\ clientBuilder = DefaultClientBuilder
    /\ client = None
    /\ NoBuilders
    /\ codecIn \in CodecFilters
    /\ codecJson = None
    /\ codecOut = None
    /\ NoWire
    /\ NoFlights
    /\ NoFilter
    /\ aborted = FALSE

NextCodec ==
    \/ EncodeFilter
    \/ DecodeFilter

SpecCodec == InitCodec /\ [][NextCodec]_vars

\* SpecFilter: every chain of setter calls on one SearchSubjectsFilter builder,
\* built at any point
InitFilter ==
    /\ clientBuilder = DefaultClientBuilder
    /\ client = None
    /\ NoBuilders
    /\ NoCodec
    /\ NoWire
    /\ NoFlights
    /\ NoFilter
    /\ aborted = FALSE

NextFilter ==
    \/ SearchSubjectsFilter_builder
    \/ \E f \in FilterListFields : \E item \in FilterItems(f) : FilterEach(f, item)
    \/ \E f \in FilterListFields : \E list \in SeqsUpTo(FilterItems(f), 1) :
            FilterList(f, list)
    \/ \E nsfw \in BOOLEAN : FilterNsfw(nsfw)
    \/ FilterBuild

SpecFilter == InitFilter /\ [][NextFilter]_vars

\* SpecTypes: every JSON value within the bounds decoded as each type, and
\* every value of each type encoded
InitTypes ==
    /\ clientBuilder = DefaultClientBuilder
    /\ client = None
    /\ NoBuilders
    /\ NoCodec
    /\ NoFlights
    /\ NoFilter
    /\ aborted = FALSE
    /\ wireType \in WireTypes
    /\ wireOp = "none"
    /\ \/ /\ wireJson \in {Some(j) : j \in WireJsons(wireType)}
          /\ wireValue = None
       \/ /\ wireJson = None
          /\ wireValue \in {Some(DecodeOk(v)) : v \in WireValues(wireType)}

NextTypes ==
    \/ DecodeWire
    \/ EncodeWire

SpecTypes == InitTypes /\ [][NextTypes]_vars

\* the builders the shared Client is built from
ConcurrentBuilders ==
    {DefaultClientBuilder,
     [DefaultClientBuilder EXCEPT !.user_agent = Some(Some("xxx/yyy/1.0")),
                                  !.token = Some(Some("auth_token"))],
     [DefaultClientBuilder EXCEPT !.base_url = Some("http://localhost:8080"),
                                  !.token = Some(Some("auth_token")),
                                  !.client = Some([user_agent |-> None,
                                                   authorization |-> None])]}

\* SpecConcurrent: one built Client, up to MaxInflight of its operations in
\* flight, issued and answered in any order
InitConcurrent ==
    /\ clientBuilder \in ConcurrentBuilders
    /\ client = Some(ClientBuilder_build(clientBuilder))
    /\ NoBuilders
    /\ NoCodec
    /\ NoWire
    /\ NoFlights
    /\ NoFilter
    /\ aborted = FALSE

NextConcurrent ==
    \/ \E slot \in Slots, op \in {"get_subject", "get_episode"}, id \in Ids :
            IssueDirect(slot, op, to_string(id))
    \/ \E slot \in Slots : IssueDirect(slot, "get_me", "")
    \/ \E slot \in Slots, id \in Ids, limit \in {None, Some(Some(0))} :
            IssueEpisodes(slot, id, limit)
    \/ \E slot \in Slots, resp \in Responses : Answer(slot, resp)

SpecConcurrent == InitConcurrent /\ [][NextConcurrent]_vars

(***************************************************************************)
(* Properties                                                              *)
(***************************************************************************)
\* a step that finalizes the search-subjects builder (build, or the builder's send)
FinalizesSearch == IsSome(searchBuilder) /\ IsNone(searchBuilder')

\* the call ended with a Builder error naming field f, nothing handed to the transport
IsBuilderError(c, f) ==
    /\ ~c.result.ok
    /\ c.result.error = "Builder"
    /\ c.result.field = f
    /\ c.net = 0
    /\ IsNone(c.request)

\* the call handed one request to the transport
WasSent(c) == IsSome(c) /\ Unwrap(c).net = 1

\* C1: finalizing a search-subjects builder (build or send) while a mandatory
\* field is unset returns a Builder error naming the first unset mandatory field
\* in declaration order (keyword, then sort, then filter), and hands no request
\* to the transport.
C1_BuilderErrorNamesFirstMissing ==
    [][FinalizesSearch =>
        LET b == Unwrap(searchBuilder)
            c == Unwrap(call')
        IN  /\ IsNone(b.keyword) => IsBuilderError(c, "keyword")
            /\ (IsSome(b.keyword) /\ IsNone(b.sort)) => IsBuilderError(c, "sort")
            /\ (IsSome(b.keyword) /\ IsSome(b.sort) /\ IsNone(b.filter))
                    => IsBuilderError(c, "filter")]_vars

\* a finalize that was refused for sort, keyword being set
C1_Witness ==
    /\ IsSome(call)
    /\ Unwrap(call).op = "search_subjects"
    /\ IsBuilderError(Unwrap(call), "sort")

\* C2 (as claimed): finalizing a search-subjects builder succeeds in building
\* if and only if keyword and sort were set; limit, offset and filter unset never
\* fail the build.
C2_BuildSucceedsIffKeywordAndSort ==
    [][FinalizesSearch =>
        LET b == Unwrap(searchBuilder)
            c == Unwrap(call')
        IN  (c.result.error # "Builder") <=> (IsSome(b.keyword) /\ IsSome(b.sort))]_vars

\* the parameters of each executor that go to the query string, those that go
\* to the JSON body, and those that are mandatory
QueryParams(op) ==
    CASE op = "search_subjects" -> {"limit", "offset"}
      [] op = "get_subjects" ->
            {"type", "cat", "series", "platform", "sort", "year", "month", "limit",
             "offset"}
      [] op = "get_episodes" -> {"subject_id", "type", "limit", "offset"}

BodyParams(op) ==
    CASE op = "search_subjects" -> {"keyword", "sort", "filter"}
      [] op = "get_subjects" -> {}
      [] op = "get_episodes" -> {}

MandatoryParams(op) ==
    CASE op = "search_subjects" -> {"keyword", "sort", "filter"}
      [] op = "get_subjects" -> {"type"}
      [] op = "get_episodes" -> {"subject_id"}

\* whether the caller set parameter k on the builder or executor that is about
\* to be sent
CallerSet(k) ==
    IF IsSome(searchBuilder) THEN IsSome(Unwrap(searchBuilder)[k])
    ELSE IF IsSome(subjectsBuilder) THEN IsSome(Unwrap(subjectsBuilder)[k])
    ELSE IF IsSome(episodesBuilder) THEN IsSome(Unwrap(episodesBuilder)[k])
    ELSE k \in MandatoryParams(Unwrap(executor).op) \/ IsSome(Unwrap(executor)[k])

\* C3 (as claimed): in every request the search-subjects, list-subjects and
\* list-episodes executors render, a parameter the caller left unset is absent
\* from the query string and a parameter the caller set is in the query string
\* exactly once.
C3_EverySetParameterIsInQuery ==
    [][WasSent(call') =>
        LET c == Unwrap(call')
            q == Unwrap(c.request).query
        IN  \A k \in QueryParams(c.op) \cup BodyParams(c.op) :
                QueryCount(q, k) = IF CallerSet(k) THEN 1 ELSE 0]_vars

\* C3 (amended): in every such request, a query parameter the caller left unset
\* is absent from the query string, a query parameter the caller set is there
\* exactly once, no pair has an empty value, and the parameters search-subjects
\* sends in its JSON body (keyword, sort, filter) are each in the body exactly
\* once and not in the query string.
C3_QueryHasExactlyTheSetParameters ==
    [][WasSent(call') =>
        LET c == Unwrap(call')
            q == Unwrap(c.request).query
            body == Unwrap(c.request).body
        IN  /\ \A k \in QueryParams(c.op) :
                    QueryCount(q, k) = IF CallerSet(k) THEN 1 ELSE 0
            /\ \A i \in 1..Len(q) : q[i][1] \in QueryParams(c.op) /\ q[i][2] # ""
            /\ IsSome(body) <=> BodyParams(c.op) # {}
            /\ \A k \in BodyParams(c.op) :
                    /\ CallerSet(k)
                    /\ JCount(Unwrap(body), k) = 1
                    /\ QueryCount(q, k) = 0]_vars

\* a list-subjects request with limit=0 and series=false set, cat and offset unset
C3_Witness ==
    /\ WasSent(call)
    /\ Unwrap(call).op = "get_subjects"
    /\ LET q == Unwrap(Unwrap(call).request).query
       IN  /\ QueryCount(q, "limit") = 1
           /\ QueryValue(q, "limit") = "0"
           /\ QueryCount(q, "series") = 1
           /\ QueryValue(q, "series") = "false"
           /\ QueryCount(q, "cat") = 0
           /\ QueryCount(q, "offset") = 0

\* the search of the end-to-end scenario: keyword K, sort Match, limit 1, offset 0,
\* a filter whose only populated field is type = [Anime], sent by the executor
C4_Case ==
    /\ IsSome(executor)
    /\ Unwrap(executor).op = "search_subjects"
    /\ WasSent(call)
    /\ Unwrap(executor).sort = "Match"
    /\ Unwrap(executor).limit = Some(1)
    /\ Unwrap(executor).offset = Some(0)
    /\ Unwrap(executor).filter = [DefaultFilter EXCEPT !.type = <<"Anime">>]

\* what the scenario's request is, but for the keys of the filter object
C4_Rendered(filterKeys) ==
    LET r == Unwrap(Unwrap(call).request)
        body == Unwrap(r.body)
    IN  /\ r.method = "POST"
        /\ r.url = "https://api.bgm.tv/v0/search/subjects"
        /\ r.query = << <<"limit", "1">>, <<"offset", "0">> >>
        /\ IsSome(r.body)
        /\ body.t = "object"
        /\ Len(body.members) = 3
        /\ \A k \in {"keyword", "sort", "filter"} : JCount(body, k) = 1
        /\ JGet(body, "keyword") = JStr(Unwrap(executor).keyword)
        /\ JGet(body, "sort") = JStr("match")
        /\ JGet(body, "filter").t = "object"
        /\ {JKeys(JGet(body, "filter"))[i] : i \in 1..Len(JGet(body, "filter").members)}
                = filterKeys
        /\ Len(JGet(body, "filter").members) = Cardinality(filterKeys)
        /\ JGet(JGet(body, "filter"), "type") = JArr(<<JNum(2)>>)

\* C4 (as claimed): the scenario renders a POST to /v0/search/subjects with query
\* limit=1, offset=0 and a body with exactly keyword, sort and filter, the filter
\* object holding exactly the key type with value [2].
C4_FilterHoldsOnlyType == C4_Case => C4_Rendered({"type"})

\* C4 (amended): as claimed, but the filter object holds exactly the keys type,
\* with value [2], and nsfw, with value false.
C4_FilterHoldsTypeAndNsfw ==
    C4_Case =>
        /\ C4_Rendered({"type", "nsfw"})
        /\ JGet(JGet(Unwrap(Unwrap(Unwrap(call).request).body), "filter"), "nsfw")
                = JBool(FALSE)

\* the scenario's search was sent and answered
C4_Witness == C4_Case /\ Unwrap(call).result.ok

\* C5: in the serialized form of a SearchSubjectsFilter, each of the five list
\* fields has its key (once, with a non-empty array) if and only if the list is
\* not empty.
C5_EmptyListsAreOmitted ==
    IsSome(codecJson) =>
        \A k \in FilterListFields :
            /\ JCount(Unwrap(codecJson), k) = IF Len(codecIn[k]) > 0 THEN 1 ELSE 0
            /\ JHasKey(Unwrap(codecJson), k) =>
                    /\ JGet(Unwrap(codecJson), k).t = "array"
                    /\ Len(JGet(Unwrap(codecJson), k).items) = Len(codecIn[k])

\* a serialized filter with one list populated and another empty
C5_Witness ==
    /\ IsSome(codecJson)
    /\ Len(codecIn.type) > 0
    /\ Len(codecIn.tag) = 0
    /\ JHasKey(Unwrap(codecJson), "type")
    /\ ~JHasKey(Unwrap(codecJson), "tag")

\* C6 (as claimed): decoding the JSON a SearchSubjectsFilter encodes to succeeds
\* and yields the filter that was encoded.
C6_FilterRoundTrips ==
    IsSome(codecOut) =>
        /\ Unwrap(codecOut).ok
        /\ Unwrap(codecOut).value = Some(codecIn)

\* C7 (as claimed): when the Client has a token, every request it issues carries
\* Authorization: Bearer <token>.
C7_TokenMeansAuthorizationHeader ==
    (IsSome(client) /\ IsSome(token(Unwrap(client))) /\ WasSent(call)) =>
        Unwrap(Unwrap(call).request).headers.authorization
            = Some("Bearer " \o Unwrap(token(Unwrap(client))))

\* C8: a Client built with no settings reports the default base URL, the library's
\* user agent and no token; one built after user_agent(U) and token(T), base_url
\* not set, reports the default base URL, U and Some(T).
C8_ClientReportsItsConfiguration ==
    IsSome(client) =>
        /\ clientBuilder = DefaultClientBuilder =>
                /\ base_url(Unwrap(client)) = "https://api.bgm.tv"
                /\ user_agent(Unwrap(client)) = DEFAULT_USER_AGENT
                /\ token(Unwrap(client)) = None
        /\ \A U \in UserAgents, T \in Tokens :
                (/\ IsNone(clientBuilder.base_url)
                 /\ clientBuilder.user_agent = Some(Some(U))
                 /\ clientBuilder.token = Some(Some(T)))
                => /\ base_url(Unwrap(client)) = "https://api.bgm.tv"
                   /\ user_agent(Unwrap(client)) = U
                   /\ token(Unwrap(client)) = Some(T)

\* a Client built after user_agent and token were set
C8_Witness ==
    /\ IsSome(client)
    /\ IsNone(clientBuilder.base_url)
    /\ clientBuilder.user_agent = Some(Some("xxx/yyy/1.0"))
    /\ clientBuilder.token = Some(Some("auth_token"))
    /\ token(Unwrap(client)) = Some("auth_token")

\* C9 (as claimed): every request a Client issues carries a User-Agent header equal
\* to what Client::user_agent reports.
C9_UserAgentHeaderIsReported ==
    (IsSome(client) /\ WasSent(call)) =>
        Unwrap(Unwrap(call).request).headers.user_agent
            = Some(user_agent(Unwrap(client)))

\* C10 (as claimed, for the error statuses 4xx and 5xx): when the transport
\* answers with a client or server error status, the operation returns a status
\* error carrying that status, never a decoded result or a decoding error.
C10_ErrorStatusIsStatusError ==
    (/\ WasSent(call)
     /\ Unwrap(Unwrap(call).response).transport = "ok"
     /\ Unwrap(Unwrap(call).response).status \in 400..599)
    => /\ ~Unwrap(call).result.ok
       /\ Unwrap(call).result.error = "Reqwest"
       /\ Unwrap(call).result.kind = "Status"
       /\ Unwrap(call).result.status = Unwrap(Unwrap(call).response).status

\* the codes each numeric enum declares
DeclaredCodes(e) ==
    CASE e = "SubjectType" -> {1, 2, 3, 4, 6}
      [] e = "CharacterType" -> {1, 2, 3, 4}
      [] e = "PersonType" -> {1, 2, 3}
      [] e = "EpisodeType" -> {0, 1, 2, 3, 4, 5, 6}
      [] e = "BloodType" -> {1, 2, 3, 4}
      [] e = "SubjectBookCategory" -> {0, 1001, 1002, 1003}
      [] e = "SubjectAnimeCategory" -> {1, 2, 3, 4}
      [] e = "SubjectGameCategory" -> {0, 4001, 4002, 4003, 4005}
      [] e = "SubjectRealCategory" -> {0, 1, 2, 3, 6001, 6002, 6003, 6004}

\* an integer was decoded as a numeric enum
DecodedInteger ==
    /\ wireOp = "decoded"
    /\ wireType \in NumericEnums
    /\ Unwrap(wireJson).t = "number"

\* C11: decoding an integer as a numeric enum succeeds exactly when the
\* integer is one of the enum's declared codes, and then yields the variant
\* with that code; any other integer fails and yields no variant.
C11_OnlyDeclaredCodesDecode ==
    DecodedInteger =>
        LET n == Unwrap(wireJson).n
            r == Unwrap(wireValue)
        IN  /\ r.ok <=> n \in DeclaredCodes(wireType)
            /\ r.ok => /\ Unwrap(r.value) \in ReprVariants(wireType)
                       /\ Repr(wireType, Unwrap(r.value)) = n
            /\ ~r.ok => r.value = None

\* 5 was refused as a SubjectType
C11_Witness ==
    /\ DecodedInteger
    /\ wireType = "SubjectType"
    /\ Unwrap(wireJson).n = 5
    /\ ~Unwrap(wireValue).ok

\* a JSON value was decoded as an InfoboxValue
DecodedInfobox == wireOp = "decoded" /\ wireType = "InfoboxValue"

\* an object whose keys are all different
UniqueKeys(j) == \A i, n \in 1..Len(j.members) : j.members[i][1] = j.members[n][1] => i = n

\* an object, its keys all different, with a member v
ObjectWithV(j) == j.t = "object" /\ UniqueKeys(j) /\ JHasKey(j, "v")

\* an object with a member v whose value is a string
ObjectWithStringV(j) ==
    /\ j.t = "object"
    /\ \E i \in 1..Len(j.members) : j.members[i][1] = "v" /\ j.members[i][2].t = "string"

\* whether member key of object j is a string
IsStringMember(j, key) == JHasKey(j, key) /\ JGet(j, key).t = "string"

C13_InfoboxValueFailsClosed ==
    DecodedInfobox =>
        LET j == Unwrap(wireJson)
            r == Unwrap(wireValue)
        IN  /\ j.t \notin {"string", "array"} => ~r.ok
            /\ (/\ j.t = "array"
                /\ \E i \in 1..Len(j.items) : ~ObjectWithStringV(j.items[i]))
               => ~r.ok
            /\ ~r.ok => r.value = None

\* an array holding a nested array of strings was rejected
C13_Witness ==
    /\ DecodedInfobox
    /\ Unwrap(wireJson).t = "array"
    /\ \E i \in 1..Len(Unwrap(wireJson).items) : Unwrap(wireJson).items[i].t = "array"
    /\ \A i \in 1..Len(Unwrap(wireJson).items) :
            Unwrap(wireJson).items[i].t = "array"
            \/ ObjectWithStringV(Unwrap(wireJson).items[i])
    /\ ~Unwrap(wireValue).ok

\* a SubjectCategory was encoded
EncodedCategory == wireOp = "encoded" /\ wireType = "SubjectCategory"

\* C14: encoding a SubjectCategory produces the bare integer code of its inner
\* category variant, with no wrapper or tag; Book(Comic) encodes as 1001.
C14_CategoryEncodesAsBareCode ==
    EncodedCategory =>
        LET c == Unwrap(Unwrap(wireValue).value)
            j == Unwrap(wireJson)
        IN  /\ j.t = "number"
            /\ j.n \in DeclaredCodes(CategoryEnum(c.enum))
            /\ Deserialize_repr(CategoryEnum(c.enum), j) = DecodeOk(c.variant)
            /\ c = [enum |-> "Book", variant |-> "Comic"] => j = JNum(1001)
            /\ c = [enum |-> "Real", variant |-> "Show"] => j = JNum(6004)

\* Book(Comic) was encoded
C14_Witness ==
    /\ EncodedCategory
    /\ Unwrap(Unwrap(wireValue).value) = [enum |-> "Book", variant |-> "Comic"]
    /\ Unwrap(wireJson) = JNum(1001)

\* a build() that returned an executor: nothing was asked of the server yet
ReturnedExecutor(c) == c.result.ok /\ c.result.value = "executor"

\* C15: every operation call hands exactly one request to the transport when
\* its request was built, and none when the builder refused or the request
\* could not be built; a call gets at most one response and ends with either a
\* result or one error.
C15_OneRoundTripPerCall ==
    [][(call' # call /\ IsSome(call') /\ ~ReturnedExecutor(Unwrap(call'))) =>
        LET c == Unwrap(call')
            built == /\ c.result.error # "Builder"
                     /\ base_url(Unwrap(client)) \in AbsoluteBaseUrls
        IN  /\ c.net = IF built THEN 1 ELSE 0
            /\ IsSome(c.request) <=> built
            /\ IsSome(c.response) <=> built
            /\ c.result.ok <=> c.result.error = ""
            /\ c.result.ok => built /\ Unwrap(c.response).transport = "ok"]_vars

\* a call that went out once and ended with an error
C15_Witness ==
    /\ IsSome(call)
    /\ Unwrap(call).net = 1
    /\ ~Unwrap(call).result.ok
    /\ Unwrap(call).result.kind = "Status"

\* the image and avatar operations
ImageOps == {"get_subject_image", "get_character_image", "get_person_image",
             "get_user_avatar"}

\* the lowercase name of each ImageType variant
LowercaseImageType(t) ==
    CASE t = "Small" -> "small"
      [] t = "Common" -> "common"
      [] t = "Medium" -> "medium"
      [] t = "Large" -> "large"
      [] t = "Grid" -> "grid"

ExpectedRequest(c, f) ==
    [method |-> "GET",
     url |-> base_url(c) \o (IF f.op = "get_episodes" THEN "/v0/episodes"
                             ELSE Path(f.op, f.arg)),
     query |-> IF f.op = "get_episodes" THEN EpisodesQuery(Unwrap(f.executor)) ELSE <<>>,
     body |-> None,
     headers |-> [accept |-> Some("application/json"),
                  user_agent |-> c.client.user_agent,
                  authorization |-> c.client.authorization]]

\* C17: under any interleaving of operations issued on one Client, the Client
\* (its base URL, user agent, credential and transport) is never modified, every
\* request rendered is the one its own operation renders from that
\* configuration and its own parameters, the other operations in flight are
\* left as they are, and an answered call finishes with the request it
\* rendered.
C17_ConcurrentCallsShareOnlyTheConfiguration ==
    [][/\ client' = client
       /\ \A slot \in Slots :
            /\ (IsNone(inflight[slot]) /\ IsSome(inflight'[slot])) =>
                    /\ Unwrap(inflight'[slot]).request
                            = ExpectedRequest(Unwrap(client), Unwrap(inflight'[slot]))
                    /\ \A other \in Slots \ {slot} : inflight'[other] = inflight[other]
                    /\ call' = call
            /\ (IsSome(inflight[slot]) /\ IsNone(inflight'[slot])) =>
                    /\ Unwrap(call').op = Unwrap(inflight[slot]).op
                    /\ Unwrap(call').request = Some(Unwrap(inflight[slot]).request)
                    /\ Unwrap(call').request
                            = Some(ExpectedRequest(Unwrap(client), Unwrap(inflight[slot])))
                    /\ \A other \in Slots \ {slot} : inflight'[other] = inflight[other]
      ]_vars

\* a call was answered while another operation, with another request, is
\* still in flight
C17_Witness ==
    /\ IsSome(call)
    /\ \E slot \in Slots :
            /\ IsSome(inflight[slot])
            /\ Some(Unwrap(inflight[slot]).request) # Unwrap(call).request

\* the credential handed to the builder makes no header value
InvalidCredential(b) ==
    /\ IsSome(Flatten(b.token))
    /\ ~HeaderValue_from_str(Unwrap(AuthorizationHeader(Flatten(b.token))))

\* C18: building a Client whose credential has a character that is invalid in
\* a header value never aborts the program and never yields a Client.
C18_InvalidCredentialIsABuildError ==
    InvalidCredential(clientBuilder) => (~aborted /\ IsNone(client))

\* a Subject document that is an object was decoded
DecodedSubject ==
    /\ wireType = "Subject"
    /\ wireOp = "decoded"
    /\ Unwrap(wireJson).t = "object"

RequiredFields(type) ==
    {StructFields(type)[n] : n \in {m \in 1..Len(StructFields(type)) :
                                        StructFields(type)[m].type \notin OptionTypes}}
OptionalFields(type) ==
    {StructFields(type)[n] : n \in {m \in 1..Len(StructFields(type)) :
                                        StructFields(type)[m].type \in OptionTypes}}

\* the JSON value has the type of the field: written from the declarations,
\* not from the decoder
RECURSIVE RightType(_, _)
RightType(type, j) ==
    CASE type \in {"u64", "usize"} -> j.t = "number" /\ j.n >= 0
      [] type = "f64" -> j.t \in {"number", "float"}
      [] type = "String" -> j.t = "string"
      [] type = "bool" -> j.t = "bool"
      [] type = "SubjectType" -> j.t = "number" /\ j.n \in {1, 2, 3, 4, 6}
      [] type = "InfoboxValue" ->
            \/ j.t = "string"
            \/ /\ j.t = "array"
               /\ \A n \in 1..Len(j.items) :
                    /\ j.items[n].t = "object"
                    /\ JCount(j.items[n], "v") = 1
                    /\ JGet(j.items[n], "v").t = "string"
      [] type \in OptionTypes -> j.t = "null" \/ RightType(Inner(type), j)
      [] type \in VecTypes ->
            j.t = "array" /\ \A n \in 1..Len(j.items) : RightType(Inner(type), j.items[n])
      [] type \in Structs ->
            \/ /\ j.t = "object"
               /\ \A f \in RequiredFields(type) :
                    JCount(j, f.key) = 1 /\ RightType(f.type, JGet(j, f.key))
               /\ \A f \in OptionalFields(type) :
                    \/ JCount(j, f.key) = 0
                    \/ JCount(j, f.key) = 1 /\ RightType(f.type, JGet(j, f.key))
            \/ /\ j.t = "array"
               /\ Len(j.items) = Len(StructFields(type))
               /\ \A n \in 1..Len(j.items) :
                    RightType(StructFields(type)[n].type, j.items[n])

\* a member of the object is named key and has the type
PresentWithRightType(j, key, type) ==
    \E i \in 1..Len(j.members) :
        j.members[i][1] = key /\ RightType(type, j.members[i][2])

\* the field is not in the object, or is null
AbsentOrNull(j, key) ==
    \A i \in 1..Len(j.members) : j.members[i][1] = key => j.members[i][2].t = "null"

\* C19 as stated: decoding a Subject succeeds when every non-optional field is
\* present with the right type, yields none for an optional field that is absent
\* or null, and fails when a non-optional field is missing or has the wrong type.
C19_RequiredFieldsDecideTheDecoding ==
    DecodedSubject =>
        LET j == Unwrap(wireJson)
            r == Unwrap(wireValue)
            required == RequiredFields("Subject")
        IN  /\ (\A f \in required : PresentWithRightType(j, f.key, f.type)) => r.ok
            /\ r.ok => \A f \in OptionalFields("Subject") :
                            AbsentOrNull(j, f.key) => Unwrap(r.value)[f.key] = None
            /\ (\E f \in required : ~PresentWithRightType(j, f.key, f.type)) => ~r.ok

\* C19, restated: decoding a Subject from an object succeeds exactly when every
\* non-optional field is present once with the right type and every optional
\* field is absent, or present once and null or of the right type; it then
\* yields none for every optional field that is absent or null and the value for
\* every optional field that has one; otherwise it fails.
C19_SubjectDecodes ==
    DecodedSubject =>
        LET j == Unwrap(wireJson)
            r == Unwrap(wireValue)
        IN  /\ r.ok <=> RightType("Subject", j)
            /\ r.ok => \A f \in OptionalFields("Subject") :
                            Unwrap(r.value)[f.key] = None <=> AbsentOrNull(j, f.key)
            /\ ~r.ok => r.value = None

\* the test's document was decoded: it has no "image" member, every
\* non-optional member is good, and image is none
C19_Witness ==
    /\ DecodedSubject
    /\ Unwrap(wireJson) = GoodSubject
    /\ Unwrap(wireValue).ok
    /\ Unwrap(Unwrap(wireValue).value)["image"] = None
    /\ Unwrap(Unwrap(wireValue).value)["date"] = Some("2004-04-24")

\* the lowercase names of the variants of a string enum
LowercaseNames(e) ==
    CASE e = "SortType" -> {"match", "heat", "rank", "score"}
      [] e = "PersonCareer" ->
            {"producer", "mangaka", "artist", "seiyu", "writer", "illustrator", "actor"}
      [] e = "ImageType" -> {"small", "common", "medium", "large", "grid"}

DecodedStringEnum == wireType \in StringEnums /\ wireOp = "decoded"
EncodedStringEnum == wireType \in StringEnums /\ wireOp = "encoded"

\* the variant encodes as a lowercase name of its enum, no two variants as the
\* same one, and the default SortType, Match, as "match"
EncodesLowercase ==
    EncodedStringEnum =>
        LET v == Unwrap(Unwrap(wireValue).value)
            j == Unwrap(wireJson)
        IN  /\ j.t = "string"
            /\ j.s \in LowercaseNames(wireType)
            /\ \A w \in StringEnumVariants(wireType) :
                    Serialize(wireType, w) = j => w = v
            /\ (wireType = "SortType" /\ v = SortType_default) =>
                    (v = "Match" /\ j = JStr("match"))

\* C20 as stated: SortType, PersonCareer and ImageType encode as the lowercase
\* name of the variant and decode only from exactly those lowercase strings;
\* the default SortType is Match, which encodes as "match".
C20_LowercaseStringsOnly ==
    /\ EncodesLowercase
    /\ DecodedStringEnum =>
            (Unwrap(wireValue).ok <=>
                (Unwrap(wireJson).t = "string"
                 /\ Unwrap(wireJson).s \in LowercaseNames(wireType)))

\* C20, restated: the three enums encode as the lowercase name of the variant;
\* a JSON string decodes exactly when it is one of those lowercase names, to
\* the variant that encodes as it; the only other JSON value that decodes is
\* the object with one member whose key is such a name and whose value is null;
\* the default SortType is Match, which encodes as "match".
C20_StringEnumsAreLowercase ==
    /\ EncodesLowercase
    /\ DecodedStringEnum =>
            LET j == Unwrap(wireJson)
                r == Unwrap(wireValue)
            IN  /\ j.t = "string" => (r.ok <=> j.s \in LowercaseNames(wireType))
                /\ j.t = "object" =>
                        (r.ok <=> /\ Len(j.members) = 1
                                  /\ j.members[1][1] \in LowercaseNames(wireType)
                                  /\ j.members[1][2].t = "null")
                /\ j.t \notin {"string", "object"} => ~r.ok
                /\ (r.ok /\ j.t = "string") =>
                        Serialize(wireType, Unwrap(r.value)) = j

\* the default SortType was encoded, as "match"
C20_Witness ==
    /\ EncodedStringEnum
    /\ wireType = "SortType"
    /\ Unwrap(wireValue) = DecodeOk(SortType_default)
    /\ wireJson = Some(JStr("match"))

\* the code sets of the four category enums, as declared
BookCodes == {0, 1001, 1002, 1003}
AnimeCodes == {1, 2, 3, 4}
GameCodes == {0, 4001, 4002, 4003, 4005}
RealCodes == {0, 1, 2, 3, 6001, 6002, 6003, 6004}

\* an integer was decoded as a SubjectCategory
DecodedCategoryInteger ==
    /\ wireType = "SubjectCategory"
    /\ wireOp = "decoded"
    /\ Unwrap(wireJson).t = "number"

\* C21: an integer decodes as the first of Book, Anime, Game, Real whose code
\* set contains it: 0 is Book(Other), 1, 2, 3 are Anime TV, OVA, Movie; a Game
\* or Real category is only reached by a code of no earlier enumeration; an
\* integer in none of the four code sets fails.
C21_FirstCategoryInOrderWins ==
    DecodedCategoryInteger =>
        LET n == Unwrap(wireJson).n
            r == Unwrap(wireValue)
            c == Unwrap(r.value)
        IN  /\ r.ok <=> n \in BookCodes \cup AnimeCodes \cup GameCodes \cup RealCodes
            /\ n \in BookCodes => c.enum = "Book"
            /\ (n \notin BookCodes /\ n \in AnimeCodes) => c.enum = "Anime"
            /\ (n \notin BookCodes \cup AnimeCodes /\ n \in GameCodes) => c.enum = "Game"
            /\ (n \notin BookCodes \cup AnimeCodes \cup GameCodes /\ n \in RealCodes) =>
                    c.enum = "Real"
            /\ r.ok => Repr(CategoryEnum(c.enum), c.variant) = n
            /\ n = 0 => c = [enum |-> "Book", variant |-> "Other"]
            /\ n = 1 => c = [enum |-> "Anime", variant |-> "TV"]
            /\ n = 2 => c = [enum |-> "Anime", variant |-> "OVA"]
            /\ n = 3 => c = [enum |-> "Anime", variant |-> "Movie"]

\* a code of two enumerations (3 is Anime Movie and Real CN) was decoded, as
\* the earlier one
C21_Witness ==
    /\ DecodedCategoryInteger
    /\ Unwrap(wireJson).n = 3
    /\ Unwrap(wireValue) = DecodeOk([enum |-> "Anime", variant |-> "Movie"])

\* C22: SubjectCategory round-trips through its JSON encoding: decoding the
\* encoding of a SubjectCategory value c yields c.
C22_CategoryRoundTrips ==
    [][(wireType = "SubjectCategory" /\ wireOp = "encoded" /\ wireOp' = "decoded") =>
            wireValue' = wireValue]_vars

\* the builder after the step holds v in field f and what it held before in
\* every other field; writing the value it already held changes nothing
SetterWrote(before, after, f, v) ==
    /\ IsSome(before)
    /\ IsSome(after)
    /\ Unwrap(after)[f] = v
    /\ \A g \in (DOMAIN Unwrap(before)) \ {f} : Unwrap(after)[g] = Unwrap(before)[g]
    /\ Unwrap(before)[f] = v => after = before

\* the executor holds the builder's value of every parameter
ExecutorHolds(b, e, mandatory, optional) ==
    /\ \A f \in mandatory : e[f] = Unwrap(b[f])
    /\ \A f \in optional : e[f] = IF IsSome(b[f]) THEN Unwrap(b[f]) ELSE None

\* whatever the builders hold, every setter can be called with every value and
\* leaves the builder holding that value
SettersOverwrite ==
    /\ IsSome(searchBuilder) =>
            /\ \A k \in Keywords :
                    ENABLED (SearchKeyword(k) /\ Unwrap(searchBuilder').keyword = Some(k))
            /\ \A x \in SortType :
                    ENABLED (SearchSort(x) /\ Unwrap(searchBuilder').sort = Some(x))
            /\ \A n \in U64 :
                    /\ ENABLED (SearchLimit(n)
                                /\ Unwrap(searchBuilder').limit = Some(Some(n)))
                    /\ ENABLED (SearchOffset(n)
                                /\ Unwrap(searchBuilder').offset = Some(Some(n)))
            /\ \A x \in Filters :
                    ENABLED (SearchFilter(x) /\ Unwrap(searchBuilder').filter = Some(x))
    /\ IsSome(subjectsBuilder) =>
            /\ \A x \in SubjectType :
                    ENABLED (SubjectsType(x) /\ Unwrap(subjectsBuilder').type = Some(x))
            /\ \A x \in Categories :
                    ENABLED (SubjectsCat(x)
                             /\ Unwrap(subjectsBuilder').cat = Some(Some(x)))
            /\ \A x \in BOOLEAN :
                    ENABLED (SubjectsSeries(x)
                             /\ Unwrap(subjectsBuilder').series = Some(Some(x)))
            /\ \A n \in U64 :
                    /\ ENABLED (SubjectsLimit(n)
                                /\ Unwrap(subjectsBuilder').limit = Some(Some(n)))
                    /\ ENABLED (SubjectsOffset(n)
                                /\ Unwrap(subjectsBuilder').offset = Some(Some(n)))
    /\ IsSome(episodesBuilder) =>
            /\ \A x \in EpisodeType :
                    ENABLED (EpisodesType(x)
                             /\ Unwrap(episodesBuilder').type = Some(Some(x)))
            /\ \A n \in U64 :
                    /\ ENABLED (EpisodesLimit(n)
                                /\ Unwrap(episodesBuilder').limit = Some(Some(n)))
                    /\ ENABLED (EpisodesOffset(n)
                                /\ Unwrap(episodesBuilder').offset = Some(Some(n)))

\* what a setter step and a build step do to the builder and the executor
SettersWrite ==
    /\ \A k \in Keywords : SearchKeyword(k) =>
             SetterWrote(searchBuilder, searchBuilder', "keyword", Some(k))
    /\ \A x \in SortType : SearchSort(x) =>
             SetterWrote(searchBuilder, searchBuilder', "sort", Some(x))
    /\ \A n \in U64 :
         /\ SearchLimit(n) =>
                 SetterWrote(searchBuilder, searchBuilder', "limit", Some(Some(n)))
         /\ SearchOffset(n) =>
                 SetterWrote(searchBuilder, searchBuilder', "offset", Some(Some(n)))
         /\ SubjectsLimit(n) =>
                 SetterWrote(subjectsBuilder, subjectsBuilder', "limit", Some(Some(n)))
         /\ SubjectsOffset(n) =>
                 SetterWrote(subjectsBuilder, subjectsBuilder', "offset", Some(Some(n)))
         /\ EpisodesLimit(n) =>
                 SetterWrote(episodesBuilder, episodesBuilder', "limit", Some(Some(n)))
         /\ EpisodesOffset(n) =>
                 SetterWrote(episodesBuilder, episodesBuilder', "offset", Some(Some(n)))
    /\ \A x \in Filters : SearchFilter(x) =>
             SetterWrote(searchBuilder, searchBuilder', "filter", Some(x))
    /\ \A x \in SubjectType : SubjectsType(x) =>
             SetterWrote(subjectsBuilder, subjectsBuilder', "type", Some(x))
    /\ \A x \in Categories : SubjectsCat(x) =>
             SetterWrote(subjectsBuilder, subjectsBuilder', "cat", Some(Some(x)))
    /\ \A x \in BOOLEAN : SubjectsSeries(x) =>
             SetterWrote(subjectsBuilder, subjectsBuilder', "series", Some(Some(x)))
    /\ \A x \in Platforms : SubjectsPlatform(x) =>
             SetterWrote(subjectsBuilder, subjectsBuilder', "platform", Some(Some(x)))
    /\ \A x \in Sorts : SubjectsSort(x) =>
             SetterWrote(subjectsBuilder, subjectsBuilder', "sort", Some(Some(x)))
    /\ \A x \in Years : SubjectsYear(x) =>
             SetterWrote(subjectsBuilder, subjectsBuilder', "year", Some(Some(x)))
    /\ \A x \in Months : SubjectsMonth(x) =>
             SetterWrote(subjectsBuilder, subjectsBuilder', "month", Some(Some(x)))
    /\ \A x \in EpisodeType : EpisodesType(x) =>
             SetterWrote(episodesBuilder, episodesBuilder', "type", Some(Some(x)))
    /\ (SearchBuild /\ IsSome(executor')) =>
             ExecutorHolds(Unwrap(searchBuilder), Unwrap(executor'),
                           {"keyword", "sort", "filter"}, {"limit", "offset"})
    /\ (SubjectsBuild /\ IsSome(executor')) =>
             ExecutorHolds(Unwrap(subjectsBuilder), Unwrap(executor'), {"type"},
                           {"cat", "series", "platform", "sort", "year", "month",
                            "limit", "offset"})
    /\ (EpisodesBuild /\ IsSome(executor')) =>
             ExecutorHolds(Unwrap(episodesBuilder), Unwrap(executor'),
                           {"subject_id"}, {"type", "limit", "offset"})

\* C23: on the three request builders a setter call leaves the builder holding
\* the value of that call for its parameter, whatever was set before, and every
\* other parameter as it was; setting the value already held changes nothing;
\* build hands every parameter to the executor as the builder holds it. So the
\* built executor holds, for each parameter, the value of the most recent call.
C23_SettersAreLastWriteWins ==
    []SettersOverwrite /\ [][SettersWrite]_vars

\* an executor was built from a builder on which several setters were called
C23_Witness ==
    /\ IsSome(executor)
    /\ Unwrap(executor).op = "get_subjects"
    /\ Unwrap(executor).type = "Anime"
    /\ Unwrap(executor).limit = Some(1)
    /\ Unwrap(executor).offset = Some(0)
    /\ IsSome(Unwrap(executor).series)

FinalizesSubjects == IsSome(subjectsBuilder) /\ IsNone(subjectsBuilder')

\* the decimal digits of the numbers handed to the setters
Decimal(n) ==
    CASE n = 0 -> "0" [] n = 1 -> "1" [] n = 2 -> "2" [] n = 3 -> "3" [] n = 4 -> "4"
      [] n = 7 -> "7" [] n = 2023 -> "2023"

\* the fixed order of the list-subjects parameters
SubjectsOrder ==
    <<"type", "cat", "series", "platform", "sort", "year", "month", "limit", "offset">>

\* what parameter k with value v must look like in the query
SubjectsRendered(k, v) ==
    CASE k = "type" ->
            (CASE v = "Book" -> "1" [] v = "Anime" -> "2" [] v = "Music" -> "3"
               [] v = "Game" -> "4" [] v = "Real" -> "6")
      [] k = "cat" ->
            (CASE v = [enum |-> "Book", variant |-> "Novel"] -> "1002"
               [] v = [enum |-> "Anime", variant |-> "TV"] -> "1")
      [] k = "series" -> (IF v THEN "true" ELSE "false")
      [] k \in {"platform", "sort"} -> v
      [] k \in {"year", "month", "limit", "offset"} -> Decimal(v)

\* the query for the parameters p (none or the value, by name): the present
\* ones in the fixed order
ExpectedSubjectsQuery(p) ==
    LET present == SelectSeq(SubjectsOrder, LAMBDA k : IsSome(p[k]))
    IN  [i \in 1..Len(present) |->
            <<present[i], SubjectsRendered(present[i], Unwrap(p[present[i]]))>>]

\* the request is the list-subjects request for the parameters p
IsSubjectsRequest(req, c, p) ==
    /\ req.method = "GET"
    /\ req.url = base_url(c) \o "/v0/subjects"
    /\ IsNone(req.body)
    /\ req.query = ExpectedSubjectsQuery(p)
    /\ req.query[1][1] = "type"

\* the parameters a list-subjects builder holds, and those an executor holds
SubjectsBuilderParams(b) ==
    [k \in {SubjectsOrder[i] : i \in 1..Len(SubjectsOrder)} |->
        IF k = "type" THEN b[k] ELSE IF IsSome(b[k]) THEN Unwrap(b[k]) ELSE None]
SubjectsExecutorParams(e) ==
    [k \in {SubjectsOrder[i] : i \in 1..Len(SubjectsOrder)} |->
        IF k = "type" THEN Some(e[k]) ELSE e[k]]

\* C24: finalizing a list-subjects builder (build or send) fails with a Builder
\* error naming type, and no request, exactly when type is unset; every request
\* list-subjects renders is a GET to /v0/subjects whose query has type as the
\* bare code of the SubjectType first, cat as the bare code of the category
\* when set, and the present parameters in the order type, cat, series,
\* platform, sort, year, month, limit, offset.
C24_ListSubjectsRequest ==
    [][/\ FinalizesSubjects =>
            LET b == Unwrap(subjectsBuilder)
                c == Unwrap(call')
            IN  /\ IsNone(b.type) => (IsBuilderError(c, "type") /\ IsNone(executor'))
                /\ IsSome(b.type) =>
                        /\ c.result.error # "Builder"
                        /\ \/ IsSome(executor') /\ c.net = 0
                           \/ /\ c.net = 1
                              /\ IsSubjectsRequest(Unwrap(c.request), Unwrap(client),
                                                   SubjectsBuilderParams(b))
       /\ (\E resp \in Responses : SubjectsExecutorSend(resp)) =>
            /\ Unwrap(call').net = 1
            /\ IsSubjectsRequest(Unwrap(Unwrap(call').request), Unwrap(client),
                                 SubjectsExecutorParams(Unwrap(executor)))
      ]_vars

\* a list-subjects request went out with type, cat and limit set, and not series
C24_Witness ==
    /\ WasSent(call)
    /\ Unwrap(call).op = "get_subjects"
    /\ Unwrap(Unwrap(call).request).query
            = << <<"type", "1">>, <<"cat", "1002">>, <<"limit", "1">> >>

FinalizesEpisodes == IsSome(episodesBuilder) /\ IsNone(episodesBuilder')

\* the bare code of an EpisodeType in a query
EpisodeTypeCode(t) ==
    CASE t = "MainStory" -> "0" [] t = "SP" -> "1" [] t = "OP" -> "2" [] t = "ED" -> "3"
      [] t = "PV" -> "4" [] t = "MAD" -> "5" [] t = "Other" -> "6"

\* the list-episodes query for subject id, and type, limit, offset (none or the
\* value)
ExpectedEpisodesQuery(id, type, limit, offset) ==
    << <<"subject_id", Decimal(id)>> >>
    \o (IF IsSome(type) THEN << <<"type", EpisodeTypeCode(Unwrap(type))>> >> ELSE <<>>)
    \o (IF IsSome(limit) THEN << <<"limit", Decimal(Unwrap(limit))>> >> ELSE <<>>)
    \o (IF IsSome(offset) THEN << <<"offset", Decimal(Unwrap(offset))>> >> ELSE <<>>)

IsEpisodesRequest(req, c, query) ==
    /\ req.method = "GET"
    /\ req.url = base_url(c) \o "/v0/episodes"
    /\ IsNone(req.body)
    /\ req.query = query
    /\ QueryCount(req.query, "subject_id") = 1

\* C25: a list-episodes builder from Client::get_episodes(subject_id) holds that
\* id whatever optional setters are called; finalizing it (build or send) never
\* fails with a Builder error; the request it renders is a GET to /v0/episodes
\* whose query has subject_id equal to that id, and type as the bare code of
\* the EpisodeType when set (type=0 for MainStory).
C25_ListEpisodesRequest ==
    [][/\ \A id \in U64 : GetEpisodes(id) =>
            Unwrap(episodesBuilder').subject_id = Some(id)
       /\ (IsSome(episodesBuilder) /\ IsSome(episodesBuilder')) =>
            Unwrap(episodesBuilder').subject_id = Unwrap(episodesBuilder).subject_id
       /\ FinalizesEpisodes =>
            LET b == Unwrap(episodesBuilder)
                c == Unwrap(call')
            IN  /\ c.result.error # "Builder"
                /\ \/ /\ IsSome(executor')
                      /\ c.net = 0
                      /\ Unwrap(executor').subject_id = Unwrap(b.subject_id)
                   \/ /\ c.net = 1
                      /\ IsEpisodesRequest(Unwrap(c.request), Unwrap(client),
                            ExpectedEpisodesQuery(Unwrap(b.subject_id), Flatten(b.type),
                                                  Flatten(b.limit), Flatten(b.offset)))
       /\ (\E resp \in Responses : EpisodesExecutorSend(resp)) =>
            /\ Unwrap(call').net = 1
            /\ IsEpisodesRequest(Unwrap(Unwrap(call').request), Unwrap(client),
                    ExpectedEpisodesQuery(Unwrap(executor).subject_id,
                                          Unwrap(executor).type, Unwrap(executor).limit,
                                          Unwrap(executor).offset))
      ]_vars

\* a list-episodes request went out with type MainStory and nothing else set
C25_Witness ==
    /\ WasSent(call)
    /\ Unwrap(call).op = "get_episodes"
    /\ Unwrap(Unwrap(call).request).query = << <<"subject_id", "1">>, <<"type", "0">> >>

\* an operation was called on a Client whose base URL does not parse as an
\* absolute URL, and got as far as rendering its request
CalledWithMalformedBaseUrl ==
    /\ IsSome(client)
    /\ base_url(Unwrap(client)) \notin AbsoluteBaseUrls
    /\ IsSome(call)
    /\ ~ReturnedExecutor(Unwrap(call))
    /\ Unwrap(call).result.error # "Builder"

\* C26: when the Client's base URL is malformed, every operation fails with the
\* URL-construction error before any request is handed to the transport.
C26_MalformedBaseUrlIsInvalidUrl ==
    CalledWithMalformedBaseUrl =>
        /\ Unwrap(call).net = 0
        /\ ~Unwrap(call).result.ok
        /\ Unwrap(call).result.error = "InvalidUrl"

\* a JSON operation got a success status with a body that does not match the
\* schema it expects
AnsweredOffSchema ==
    /\ WasSent(call)
    /\ Unwrap(call).op \notin ImageOps
    /\ Unwrap(Unwrap(call).response).transport = "ok"
    /\ Unwrap(Unwrap(call).response).status \in 200..299
    /\ Unwrap(Unwrap(call).response).body = "other"

\* C27: when a success-status response body does not match the expected
\* schema, the operation fails with the Serialization error class, which is
\* not the class of transport failures and non-success statuses.
C27_OffSchemaBodyIsSerializationError ==
    AnsweredOffSchema =>
        /\ ~Unwrap(call).result.ok
        /\ Unwrap(call).result.error = "Serialize"
        /\ Unwrap(call).result.error # "Reqwest"

\* a built executor was sent
ExecutorSendStep ==
    \E resp \in Responses :
        \/ SearchExecutorSend(resp)
        \/ SubjectsExecutorSend(resp)
        \/ EpisodesExecutorSend(resp)

\* C28: a built parameter set is consumed by the send that renders and performs
\* its request: once it was sent no executor is left to be sent again (a send is
\* enabled whenever an executor is there).
C28_ExecutorIsSentOnce ==
    [][ExecutorSendStep => IsNone(executor')]_vars

\* what build() returns for the builder as it is now
BuiltNow == SearchSubjectsFilterBuilder_build(Unwrap(filterBuilder)).value

\* a filter was built: the build succeeded, and with no setter called before it
\* the five lists are empty and nsfw is false
FilterBuilt ==
    IsSome(filter) =>
        /\ Unwrap(filter).ok
        /\ filterBuilder = Some(DefaultFilterBuilder) =>
                /\ \A f \in FilterListFields : Unwrap(filter).value[f] = <<>>
                /\ Unwrap(filter).value.nsfw = FALSE

\* a per-item setter was called: the list a build returns is the list a build
\* returned before the call with the item at its end, and a build returns every
\* other field as before
FilterEachAppends ==
    \A f \in FilterListFields : \A item \in FilterItems(f) :
        FilterEach(f, item) =>
            /\ BuiltNow'[f] = Append(BuiltNow[f], item)
            /\ \A g \in DOMAIN BuiltNow \ {f} : BuiltNow'[g] = BuiltNow[g]

\* C29: the filter builder's build never fails, an empty builder builds five
\* empty lists and nsfw = false, each per-item setter appends one item (the built
\* list holds the items in call order) and changes no other field.
C29_FilterBuilder == []FilterBuilt /\ [][FilterEachAppends]_vars

\* C29 witness: a filter was built after r#type(Anime), r#type(Book) and
\* tag("magic"), in this order, and nsfw was never set
C29_Witness ==
    /\ IsSome(filter)
    /\ Unwrap(filter).value.type = <<"Anime", "Book">>
    /\ Unwrap(filter).value.tag = <<"magic">>
    /\ Unwrap(filterBuilder).nsfw = None

UserOps == {"get_user", "get_user_avatar"}

\* the URL of a user operation's request names one user: its path is
\* /v0/users/{username}, with /avatar after it for the avatar, and it has no
\* query and no fragment of its own
AddressesOneUser(op, target) ==
    /\ Len(target.path_segments) = IF op = "get_user" THEN 3 ELSE 4
    /\ SubSeq(target.path_segments, 1, 2) = <<"v0", "users">>
    /\ target.path_segments[3] \in Usernames
    /\ op = "get_user_avatar" => target.path_segments[4] = "avatar"
    /\ target.query = None
    /\ target.fragment = None

\* C30: for every username, get_user and get_user_avatar address exactly
\* /v0/users/{username} (and /v0/users/{username}/avatar): the username is one
\* path segment, and its characters add no path segment, no query and no
\* fragment to the request.
C30_UsernameIsOnePathSegment ==
    (WasSent(call) /\ Unwrap(call).op \in UserOps) =>
        AddressesOneUser(Unwrap(call).op, Unwrap(Unwrap(call).request).target)

====
